---- MODULE Spec2Model ----
(***************************************************************************)
(* A model of the legal-grade document comparison engine                   *)
(* (app/services/document_comparison.py, the live code from line 917 on):  *)
(* the clause walker, the clause filter, the CLO builder and validator,    *)
(* the intent hash, the intent matcher, the semantic gate, the impact and  *)
(* confidence assessor and the report builder of                           *)
(* LegalDocumentComparator.compare.                                        *)
(*                                                                         *)
(* Text.  A clause string is a record of what the code reads from it: its  *)
(* length, the cue phrases it contains as substrings, and the results of   *)
(* the regular expressions and of the spaCy pipeline on it (party, verb    *)
(* lemma, object phrase, condition and exception phrases, time bound,      *)
(* qualifier phrases).  Two records that differ only in "wording" are two  *)
(* different strings from which the code extracts the same things.         *)
(* Words of a condition or exception phrase are numbers (Words below), so  *)
(* that sorting them is sorting numbers.                                   *)
(*                                                                         *)
(* Digests.  md5 and sha256 are taken to be injective on the strings the   *)
(* model builds; a digest is represented by the value digested.            *)
(*                                                                         *)
(* Floats.  A confidence is an integer number of 1/100000.                 *)
(***************************************************************************)
EXTENDS Integers, Sequences, FiniteSets, TLC

\* ------------------------------------------------------------------ bounds

\* Clauses (string leaves) per document tree in the compare() specifications.
MaxClauses == 2

\* ----------------------------------------------------------- small helpers

Range(s) == {s[i] : i \in 1..Len(s)}

None == "None"

\* An Optional[...] value: <<>> is Python's None, <<x>> is x.
Some(x) == <<x>>

RECURSIVE SumSeq(_)
SumSeq(s) == IF s = <<>> THEN 0 ELSE Head(s) + SumSeq(Tail(s))

RECURSIVE Flatten(_)
Flatten(ss) == IF ss = <<>> THEN <<>> ELSE Head(ss) \o Flatten(Tail(ss))

\* str.lower(), str.upper() and len() on the few strings whose case or
\* length the code reads (object phrases; every other string of the model
\* is already in the case the code compares it in).
Lower(s) ==
    CASE s = "Invoice" -> "invoice"
      [] s = "Fees" -> "fees"
      [] s = "DUTY" -> "duty"
      [] OTHER -> s

Upper(s) ==
    CASE s = "invoice" -> "INVOICE"
      [] s = "Invoice" -> "INVOICE"
      [] s = "fees" -> "FEES"
      [] s = "Fees" -> "FEES"
      [] s = "duty" -> "DUTY"
      [] s = "data" -> "DATA"
      [] s = "id" -> "ID"
      [] OTHER -> s

StrLen(s) ==
    CASE s \in {"invoice", "Invoice"} -> 7
      [] s \in {"fees", "Fees", "duty", "DUTY", "data"} -> 4
      [] s = "id" -> 2
      [] OTHER -> 10

\* ------------------------------------------------- constants of the code

LEGAL_MODALS ==
    {"shall", "shall not", "must", "must not", "will", "will not",
     "may", "may not", "can", "cannot", "should", "should not",
     "entitled to", "has the right", "obligated to", "required to",
     "permitted to", "authorized to", "prohibited from"}

INVALID_ACTIONS ==
    {"PERFORM", "DO", "EXECUTE", "ACT", "CONDUCT", "CARRY",
     "MAKE", "TAKE", "HAVE", "BE", "GET", "GO"}

INVALID_OBJECTS ==
    {"OBLIGATION", "DUTY", "RESPONSIBILITY", "REQUIREMENT",
     "RIGHT", "PERMISSION", "THING", "MATTER", "ITEM",
     "PART", "SECTION", "CLAUSE", "PROVISION"}

IGNORE_KEYS ==
    {"summary", "entities_summary", "alerts", "sections_count",
     "metadata", "generated_summary", "document_summary",
     "extraction_metadata", "processing_info"}

WEAKENING_QUALIFIERS ==
    {"reasonable", "commercially reasonable", "reasonably", "appropriate",
     "adequate", "sufficient", "best efforts", "reasonable efforts",
     "commercially reasonable efforts", "practicable", "feasible",
     "where practicable", "where feasible", "to the extent",
     "as appropriate", "as needed", "as necessary", "good faith"}

STRENGTHENING_QUALIFIERS ==
    {"all", "any", "each", "every", "complete", "full", "entire",
     "comprehensive", "absolute", "strict", "maximum", "immediate",
     "without limitation", "in all cases", "under all circumstances"}

\* Words of condition and exception phrases.  1 and 2 stand for two of the
\* CONDITION_STOPWORDS ("the", "is"); 3.. are content words in alphabetical
\* order ("disputed", "invoice", "late", "writing").
Words == 1..6
CONDITION_STOPWORDS == {1, 2}

\* The keys of LegalNormalizer.MODALITY_MAP in the order of the dict literal,
\* which is the order extract_modality iterates in.
MODALITY_KEYS ==
    <<"shall", "must", "will", "may", "can", "shall not", "must not",
      "may not", "entitled to", "has the right">>

MODALITY_MAP(modal) ==
    CASE modal \in {"shall", "must", "will"} -> "OBLIGATION"
      [] modal \in {"may", "can"} -> "PERMISSION"
      [] modal \in {"shall not", "must not", "may not"} -> "PROHIBITION"
      [] modal \in {"entitled to", "has the right"} -> "RIGHT"

\* LegalNormalizer.ACTION_MAP, on the verbs the model's texts use.
ACTION_MAP_KEYS == {"pay", "compensate", "provide", "furnish"}

ACTION_MAP(verb) ==
    CASE verb \in {"pay", "compensate"} -> "PAY"
      [] verb \in {"provide", "furnish"} -> "PROVIDE"

\* The confidence 1.0, in 1/100000.
ConfOne == 100000

\* The similarity threshold 0.88 of match_clos, in 1/100.
SimThreshold == 88

\* ------------------------------------------------------------ normalisation

\* ' '.join(tokens) of a token list, as a number: the words are digits, so
\* two lists give the same number exactly when they are the same list.
RECURSIVE JoinWords(_)
JoinWords(tokens) ==
    IF tokens = <<>> THEN 0
    ELSE JoinWords(SubSeq(tokens, 1, Len(tokens) - 1)) * 10 + tokens[Len(tokens)]

\* normalize_condition: drop the stopwords, sort the tokens, join, md5.
normalize_condition(condition) ==
    JoinWords(SortSeq(SelectSeq(condition, LAMBDA t : t \notin CONDITION_STOPWORDS),
                      LAMBDA a, b : a < b))

\* normalize_exception: drop the stopwords, sort the tokens, join (no digest).
normalize_exception(exception) ==
    JoinWords(SortSeq(SelectSeq(exception, LAMBDA t : t \notin CONDITION_STOPWORDS),
                      LAMBDA a, b : a < b))

\* sorted(list_of_strings)
Sorted(xs) == SortSeq(xs, LAMBDA a, b : a < b)

\* extract_qualifiers(text): the qualifiers that are substrings of the lower
\* case text.  "all" is a substring of "shall".
extract_qualifiers(text) ==
    [weakening |-> text.weakening,
     strengthening |->
         text.strengthening
         \cup (IF text.modals \cap {"shall", "shall not"} # {} THEN {"all"} ELSE {})]

\* LegalNormalizer.extract_modality: the first key of MODALITY_MAP, in the
\* dict's order, that is a substring of the text; OBLIGATION when none is.
extract_modality(text) ==
    LET hits == {i \in 1..Len(MODALITY_KEYS) : MODALITY_KEYS[i] \in text.modals}
    IN  IF hits = {} THEN "OBLIGATION"
        ELSE MODALITY_MAP(MODALITY_KEYS[CHOOSE i \in hits : \A j \in hits : i <= j])

\* LegalNormalizer.normalize_action: ACTION_MAP.get(lower, lower.upper());
\* the verbs outside the map are written in upper case already.
normalize_action(action) ==
    IF action \in ACTION_MAP_KEYS THEN ACTION_MAP(action) ELSE action

\* LegalNormalizer.extract_timebound / self.timebound or ""
TimeboundOrEmpty(timebound) == IF timebound = None THEN "" ELSE timebound

\* ------------------------------------------------------------- the filters

\* is_legal_clause: a legal modal, at least 30 characters, no noise word in
\* the first 50 characters, and a VERB token (a failing spaCy call passes).
is_legal_clause(text) ==
    /\ text.modals \cap LEGAL_MODALS # {}
    /\ ~(text.len < 30)
    /\ ~text.noise
    /\ text.has_verb # "no"

\* is_legal_clause reaches its call of get_spacy_model(): the modal, the
\* length and the noise test have not returned before it.
calls_get_spacy_model(text) ==
    /\ text.modals \cap LEGAL_MODALS # {}
    /\ ~(text.len < 30)
    /\ ~text.noise

\* A validation that accepts every CLO.
is_valid_clo_all(clo) == TRUE

\* is_valid_clo
is_valid_clo(clo) ==
    /\ clo.action \notin INVALID_ACTIONS
    /\ Upper(clo.object) \notin INVALID_OBJECTS
    /\ ~(StrLen(clo.object) < 3)
    /\ ~(clo.party = "PARTY"
         /\ (clo.action \in INVALID_ACTIONS \/ Upper(clo.object) \in INVALID_OBJECTS))

\* --------------------------------------------------- CanonicalLegalObject

\* clause_uid is the path of the leaf: the list of its '.'-separated
\* segments.  A list index "[i]" is appended to the segment before it
\* without a dot; the model writes it as an element of its own.
IndexParts == {"[0]", "[1]", "[2]"}

\* f"[{idx}]"
IndexPart(idx) == CASE idx = 0 -> "[0]" [] idx = 1 -> "[1]" [] OTHER -> "[2]"

\* CanonicalLegalObject._extract_section_id: clause_uid.split('.')[0], the
\* first key with the list indices that follow it.
RECURSIVE LeadingIndexParts(_)
LeadingIndexParts(parts) ==
    IF parts # <<>> /\ Head(parts) \in IndexParts
    THEN <<Head(parts)>> \o LeadingIndexParts(Tail(parts))
    ELSE <<>>

_extract_section_id(clause_uid) ==
    IF clause_uid = <<>> THEN <<>>
    ELSE <<Head(clause_uid)>> \o LeadingIndexParts(Tail(clause_uid))

\* A digest of the components in the order the clause lists them: what the
\* hash would be without sorted().
_generate_intent_hash_unsorted(party, action, object, modality, normalized_conditions, normalized_exceptions, timebound) ==
    <<Lower(party), Lower(action), Lower(object), modality,
      normalized_conditions, normalized_exceptions, TimeboundOrEmpty(timebound)>>

\* CanonicalLegalObject._generate_intent_hash: the sha256 digest of the
\* components joined by '|'.
_generate_intent_hash(party, action, object, modality, normalized_conditions, normalized_exceptions, timebound) ==
    <<Lower(party), Lower(action), Lower(object), modality,
      Sorted(normalized_conditions), Sorted(normalized_exceptions),
      TimeboundOrEmpty(timebound)>>

\* The dataclass constructor with __post_init__.
CanonicalLegalObject(clause_uid, party, action, object, modality, conditions, exceptions, timebound, original_text) ==
    LET nc == [i \in 1..Len(conditions) |-> normalize_condition(conditions[i])]
        ne == [i \in 1..Len(exceptions) |-> normalize_exception(exceptions[i])]
    IN  [clause_uid |-> clause_uid,
         party |-> party,
         action |-> action,
         object |-> object,
         modality |-> modality,
         conditions |-> conditions,
         normalized_conditions |-> nc,
         timebound |-> timebound,
         exceptions |-> exceptions,
         normalized_exceptions |-> ne,
         qualifiers |-> extract_qualifiers(original_text),
         original_text |-> original_text,
         intent_hash |-> _generate_intent_hash(party, action, object, modality,
                                               nc, ne, timebound),
         section_id |-> _extract_section_id(clause_uid)]

\* An extraction that returns the CLO without validating it.
extract_from_clause_unchecked(clause_text, clause_id) ==
    IF ~is_legal_clause(clause_text) THEN <<>>
    ELSE <<CanonicalLegalObject(clause_id, clause_text.party,
                                normalize_action(clause_text.lemma), clause_text.object,
                                extract_modality(clause_text), clause_text.conditions,
                                clause_text.exceptions, clause_text.timebound,
                                clause_text)>>

\* CLOExtractor.extract_from_clause: <<>> for None, <<clo>> otherwise.
extract_from_clause(clause_text, clause_id) ==
    IF ~is_legal_clause(clause_text) THEN <<>>
    ELSE LET clo == CanonicalLegalObject(
                        clause_id,
                        clause_text.party,
                        normalize_action(clause_text.lemma),
                        clause_text.object,
                        extract_modality(clause_text),
                        clause_text.conditions,
                        clause_text.exceptions,
                        clause_text.timebound,
                        clause_text)
         IN  IF ~is_valid_clo(clo) THEN <<>> ELSE <<clo>>

\* -------------------------------------------------- qualifiers, exceptions

\* The order in which the interpreter iterates over a set of strings depends
\* on the process's string hash seed.  Two of the orders it can produce:
HashSeeds == {0, 1}

RECURSIVE SetToSeq(_)
SetToSeq(S) ==
    IF S = {} THEN <<>>
    ELSE LET x == CHOOSE y \in S : TRUE IN <<x>> \o SetToSeq(S \ {x})

Reverse(s) == [i \in 1..Len(s) |-> s[Len(s) + 1 - i]]

\* ', '.join(a_set): the elements in the set's iteration order.
JoinSet(S, seed) == IF seed = 0 THEN SetToSeq(S) ELSE Reverse(SetToSeq(S))

\* detect_qualifier_change: [changed, description]
detect_qualifier_change(clo1, clo2, seed) ==
    LET quals1 == extract_qualifiers(clo1.original_text)
        quals2 == extract_qualifiers(clo2.original_text)
        new_weakening == quals2.weakening \ quals1.weakening
        removed_strengthening == quals1.strengthening \ quals2.strengthening
        new_strengthening == quals2.strengthening \ quals1.strengthening
        removed_weakening == quals1.weakening \ quals2.weakening
    IN  IF new_weakening # {} \/ removed_strengthening # {}
        THEN [changed |-> TRUE,
              description |->
                  (IF new_weakening # {}
                   THEN << <<"Added weakening", JoinSet(new_weakening, seed)>> >>
                   ELSE <<>>)
                  \o
                  (IF removed_strengthening # {}
                   THEN << <<"Removed strengthening",
                             JoinSet(removed_strengthening, seed)>> >>
                   ELSE <<>>)]
        ELSE IF new_strengthening # {} \/ removed_weakening # {}
        THEN [changed |-> TRUE,
              description |->
                  (IF new_strengthening # {}
                   THEN << <<"Added strengthening", JoinSet(new_strengthening, seed)>> >>
                   ELSE <<>>)
                  \o
                  (IF removed_weakening # {}
                   THEN << <<"Removed weakening", JoinSet(removed_weakening, seed)>> >>
                   ELSE <<>>)]
        ELSE [changed |-> FALSE, description |-> <<>>]

\* compare_exceptions: the keys of norm1 and norm2 are the normalized
\* exceptions; added and removed are counted by key.
compare_exceptions(exceptions1, exceptions2) ==
    LET norm1 == {normalize_exception(exceptions1[i]) : i \in 1..Len(exceptions1)}
        norm2 == {normalize_exception(exceptions2[i]) : i \in 1..Len(exceptions2)}
        added == norm2 \ norm1
        removed == norm1 \ norm2
    IN  [changed |-> added # {} \/ removed # {},
         added |-> added,
         removed |-> removed,
         impact |-> IF removed # {} THEN "CRITICAL"
                    ELSE IF added # {} THEN "HIGH" ELSE "NONE",
         description |-> <<"Exceptions changed", Cardinality(added),
                           Cardinality(removed)>>]

\* ----------------------------------------------------------- SemanticGate

\* A gate that finds a change of scope in every pair.
is_material_change_always(clo1, clo2) == "SCOPE_CHANGE"

\* SemanticGate.is_material_change: the change type; is_material is
\* (type # NO_IMPACT_CHANGE).
is_material_change(clo1, clo2) ==
    IF clo1.party # clo2.party THEN "PARTY_CHANGE"
    ELSE IF clo1.modality # clo2.modality THEN "OBLIGATION_CHANGE"
    ELSE IF /\ clo1.normalized_exceptions # clo2.normalized_exceptions
            /\ compare_exceptions(clo1.exceptions, clo2.exceptions).changed
         THEN "EXCEPTION_CHANGE"
    ELSE IF detect_qualifier_change(clo1, clo2, 0).changed THEN "RISK_CHANGE"
    ELSE IF clo1.action # clo2.action \/ clo1.object # clo2.object
         THEN "SCOPE_CHANGE"
    ELSE IF clo1.normalized_conditions # clo2.normalized_conditions
         THEN "CONDITION_CHANGE"
    ELSE IF clo1.timebound # clo2.timebound THEN "TIMING_CHANGE"
    ELSE "NO_IMPACT_CHANGE"

\* A gate that never recognises a rewording.
detect_language_equivalence_never(clo1, clo2) == FALSE

\* SemanticGate.detect_language_equivalence
detect_language_equivalence(clo1, clo2) ==
    /\ clo1.intent_hash = clo2.intent_hash
    /\ clo1.original_text # clo2.original_text

\* --------------------------------------------------------- ImpactAssessor

\* ImpactAssessor.assess_impact
assess_impact(change_type, clo) ==
    IF change_type \in {"NO_IMPACT_CHANGE", "LANGUAGE_EQUIVALENT"} THEN "NONE"
    ELSE IF change_type = "STRUCTURAL_CHANGE" THEN "LOW"
    ELSE IF change_type = "PARTY_CHANGE" THEN "CRITICAL"
    ELSE IF change_type = "OBLIGATION_CHANGE"
         THEN (IF clo.modality = "OBLIGATION" THEN "HIGH" ELSE "MEDIUM")
    ELSE IF change_type = "EXCEPTION_CHANGE" THEN "CRITICAL"
    ELSE IF change_type = "RISK_CHANGE" THEN "HIGH"
    ELSE IF change_type \in {"TIMING_CHANGE", "CONDITION_CHANGE"} THEN "HIGH"
    ELSE IF change_type = "SCOPE_CHANGE" THEN "MEDIUM"
    ELSE IF change_type \in {"NEW_CLAUSE", "REMOVED_CLAUSE"} THEN "HIGH"
    ELSE "LOW"

\* A discount that raises the confidence.
Discount_up(confidence, applies, tenths) ==
    IF applies THEN (confidence * (10 + tenths)) \div 10 ELSE confidence

\* One discount of calculate_confidence: confidence *= tenths / 10.
Discount(confidence, applies, tenths) ==
    IF applies THEN (confidence * tenths) \div 10 ELSE confidence

\* ImpactAssessor.calculate_confidence
calculate_confidence(clo1, clo2) ==
    LET c1 == Discount(ConfOne, clo1.party = "PARTY" \/ clo2.party = "PARTY", 4)
        c2 == Discount(c1, clo1.action \in INVALID_ACTIONS
                           \/ clo2.action \in INVALID_ACTIONS, 4)
        c3 == Discount(c2, StrLen(clo1.object) < 5 \/ StrLen(clo2.object) < 5, 3)
        c4 == Discount(c3, Upper(clo1.object) \in INVALID_OBJECTS
                           \/ Upper(clo2.object) \in INVALID_OBJECTS, 3)
        c5 == Discount(c4, clo1.original_text.len < 20
                           \/ clo2.original_text.len < 20, 7)
    IN  c5

\* A review rule that looks at the confidence only.
requires_human_review_any_impact(impact, confidence) == confidence <= 75000

\* ImpactAssessor.requires_human_review (0.75 and 0.85 in 1/100000)
requires_human_review(impact, confidence) ==
    \/ (impact \in {"HIGH", "CRITICAL"} /\ confidence <= 75000)
    \/ (impact = "CRITICAL" /\ confidence <= 85000)

\* ------------------------------------------------------------ LegalChange

LegalChange(type, path, from_clo, to_clo, description, impact, confidence, review) ==
    [type |-> type, path |-> path, from_clo |-> from_clo, to_clo |-> to_clo,
     description |-> description, impact |-> impact, confidence |-> confidence,
     requires_human_review |-> review]

\* LegalChange._format_clo: the fields of a CLO a report shows.
_format_clo(clo) ==
    [party |-> clo.party, action |-> clo.action, object |-> clo.object,
     modality |-> clo.modality, conditions |-> clo.conditions,
     timebound |-> clo.timebound, exceptions |-> clo.exceptions,
     qualifiers |-> clo.qualifiers]

\* LegalChange.to_dict
to_dict(change) ==
    [type |-> change.type,
     path |-> change.path,
     from_value |-> [k \in 1..Len(change.from_clo) |-> _format_clo(change.from_clo[k])],
     to_value |-> [k \in 1..Len(change.to_clo) |-> _format_clo(change.to_clo[k])],
     description |-> change.description,
     impact |-> change.impact,
     confidence |-> change.confidence,
     requires_human_review |-> change.requires_human_review]

\* LegalDocumentComparator._generate_description
_generate_description(change_type, clo1, clo2, seed) ==
    CASE change_type = "PARTY_CHANGE" ->
             <<"Party changed", clo1.party, clo2.party>>
      [] change_type = "OBLIGATION_CHANGE" ->
             <<"Modality changed", clo1.modality, clo2.modality>>
      [] change_type = "EXCEPTION_CHANGE" ->
             compare_exceptions(clo1.exceptions, clo2.exceptions).description
      [] change_type = "RISK_CHANGE" ->
             <<"Obligation strength changed",
               detect_qualifier_change(clo1, clo2, seed).description>>
      [] change_type = "SCOPE_CHANGE" ->
             (IF clo1.action # clo2.action
              THEN <<"Action changed", clo1.action, clo2.action>>
              ELSE IF clo1.object # clo2.object
              THEN <<"Scope changed", clo1.object, clo2.object>>
              ELSE <<"Scope modified">>)
      [] change_type = "TIMING_CHANGE" ->
             <<"Timing changed", clo1.timebound, clo2.timebound>>
      [] change_type = "CONDITION_CHANGE" -> <<"Conditions modified">>
      [] OTHER -> <<"Legal change detected">>

\* compare(), the body of "for clo1, clo2 in matched": the changes one
\* matched pair appends (none, or one).
AnalyzeMatchedPair(clo1, clo2, seed) ==
    IF detect_language_equivalence(clo1, clo2)
    THEN <<LegalChange("LANGUAGE_EQUIVALENT", clo1.clause_uid, <<clo1>>, <<clo2>>,
                       <<"Translation - no legal change">>, "NONE", ConfOne, FALSE)>>
    ELSE LET change_type == is_material_change(clo1, clo2)
         IN  IF change_type # "NO_IMPACT_CHANGE"
             THEN LET impact == assess_impact(change_type, clo1)
                      confidence == calculate_confidence(clo1, clo2)
                  IN  <<LegalChange(change_type, clo1.clause_uid, <<clo1>>, <<clo2>>,
                                    _generate_description(change_type, clo1, clo2, seed),
                                    impact, confidence,
                                    requires_human_review(impact, confidence))>>
             ELSE <<>>

\* ---------------------------------------------------------- document trees

\* A JSON value: a string, a mapping (its items in order), a list, or
\* anything else (a number, a boolean, null).
Str(text) == [tag |-> "str", text |-> text]
Dict(items) == [tag |-> "dict", items |-> items]
List(items) == [tag |-> "list", items |-> items]
Other == [tag |-> "other"]
Item(key, value) == [key |-> key, value |-> value]

\* A walker without the final "anything else is skipped" case: whatever is
\* not a list is iterated as a mapping.
traverse_branch_dict(obj) ==
    IF obj.tag = "list" THEN "list" ELSE "dict"

\* traverse(): the branch taken for obj (the isinstance tests).
traverse_branch(obj) ==
    IF obj.tag = "dict" THEN "dict"
    ELSE IF obj.tag = "list" THEN "list"
    ELSE "skip"

\* The result of a walk: the CLOs appended, whether an operation was
\* applied to a value that does not support it (an exception is raised),
\* and whether get_spacy_model() was called on the way.
Walked(clos, raised) == [clos |-> clos, raised |-> raised, nlp |-> FALSE]

WalkThen(a, b) ==
    [clos |-> a.clos \o b.clos, raised |-> a.raised \/ b.raised, nlp |-> a.nlp \/ b.nlp]

\* LegalDocumentComparator._extract_clos_from_doc.traverse
RECURSIVE traverse(_, _)
RECURSIVE traverse_items(_, _, _)
RECURSIVE traverse_elements(_, _, _)

traverse(obj, path) ==
    CASE traverse_branch(obj) = "dict" ->
             IF obj.tag # "dict" THEN Walked(<<>>, TRUE)
             ELSE traverse_items(obj.items, path, 1)
      [] traverse_branch(obj) = "list" ->
             IF obj.tag # "list" THEN Walked(<<>>, TRUE)
             ELSE traverse_elements(obj.items, path, 1)
      [] OTHER -> Walked(<<>>, FALSE)

\* for key, value in obj.items()
traverse_items(items, path, i) ==
    IF i > Len(items) THEN Walked(<<>>, FALSE)
    ELSE LET key == items[i].key
             value == items[i].value
             new_path == path \o <<key>>
             here == IF key \in IGNORE_KEYS THEN Walked(<<>>, FALSE)
                     ELSE IF value.tag = "str" /\ value.text.len > 20
                     THEN [Walked(extract_from_clause(value.text, new_path), FALSE)
                              EXCEPT !.nlp = calls_get_spacy_model(value.text)]
                     ELSE traverse(value, new_path)
         IN  WalkThen(here, traverse_items(items, path, i + 1))

\* for idx, item in enumerate(obj)
traverse_elements(items, path, i) ==
    IF i > Len(items) THEN Walked(<<>>, FALSE)
    ELSE WalkThen(traverse(items[i], path \o <<IndexPart(i - 1)>>),
                  traverse_elements(items, path, i + 1))

_extract_clos_from_doc(doc) == traverse(doc, <<>>)

\* The elements of s at the indices in keep, in order.
RECURSIVE AtIndices(_, _, _)
AtIndices(s, keep, i) ==
    IF i > Len(s) THEN <<>>
    ELSE (IF i \in keep THEN <<s[i]>> ELSE <<>>) \o AtIndices(s, keep, i + 1)

\* A deduplication that keeps every CLO.
_deduplicate_clos_keep(clos) == clos

\* LegalDocumentComparator._deduplicate_clos: the first CLO of each hash.
_deduplicate_clos(clos) ==
    AtIndices(clos,
              {i \in 1..Len(clos) :
                  \A j \in 1..(i - 1) : clos[j].intent_hash # clos[i].intent_hash},
              1)

\* ----------------------------------------------------------- IntentMatcher

\* In the state, a CLO of a document is named by its index in the
\* document's CLO list (clos1, clos2): a pair of match_clos is a pair of
\* indices, a list of CLOs a list of indices.

\* The indices of the CLOs that are the first of their intent_hash.
FirstOfHash(clos) ==
    {i \in 1..Len(clos) :
        \A j \in 1..(i - 1) : clos[j].intent_hash # clos[i].intent_hash}

Hashes(clos) == {clos[i].intent_hash : i \in 1..Len(clos)}

\* {clo.intent_hash: clo for clo in clos}: the keys, in the order of their
\* first occurrence ...
MapKeys(clos) ==
    AtIndices([i \in 1..Len(clos) |-> clos[i].intent_hash], FirstOfHash(clos), 1)

\* ... and the value of a key: the last CLO of that hash.
MapGet(clos, hash_val) ==
    CHOOSE i \in 1..Len(clos) :
        /\ clos[i].intent_hash = hash_val
        /\ \A j \in (i + 1)..Len(clos) : clos[j].intent_hash # hash_val

\* A matcher that ignores the section of a clause.
IsStructuralMove_never(clo1, clo2) == FALSE

\* match_clos, "if ... clo1.section_id != clo2.section_id": a structural move.
IsStructuralMove(clo1, clo2) ==
    clo1.intent_hash = clo2.intent_hash /\ clo1.section_id # clo2.section_id

\* match_clos, the loop over map1.items(): the pairs of equal hash, each
\* marked as a structural move or not.
RECURSIVE ExactPairs(_, _, _)
ExactPairs(c1, c2, keys) ==
    IF keys = <<>> THEN <<>>
    ELSE (IF Head(keys) \in Hashes(c2)
          THEN LET i == MapGet(c1, Head(keys))
                   j == MapGet(c2, Head(keys))
               IN  <<[structural |-> IsStructuralMove(c1[i], c2[j]),
                      pair |-> <<i, j>>]>>
          ELSE <<>>)
         \o ExactPairs(c1, c2, Tail(keys))

PairsOf(entries) == [k \in 1..Len(entries) |-> entries[k].pair]

\* [clo for clo in clos if clo.intent_hash not in other_map]
UnmatchedByHash(clos, other) ==
    AtIndices([i \in 1..Len(clos) |-> i],
              {i \in 1..Len(clos) : clos[i].intent_hash \notin Hashes(other)}, 1)

\* An inner loop that takes the first candidate whatever its similarity.
BestMatch_any(sims, j, best_similarity, best_match) == IF Len(sims) >= j THEN j ELSE 0

\* The inner loop of the similarity fallback: the position in
\* unmatched_clos2 of best_match (0 for None), given each candidate's
\* similarity to clo1.
RECURSIVE BestMatch(_, _, _, _)
BestMatch(sims, j, best_similarity, best_match) ==
    IF j > Len(sims) THEN best_match
    ELSE IF sims[j] >= best_similarity
         THEN BestMatch(sims, j + 1, sims[j], j)
         ELSE BestMatch(sims, j + 1, best_similarity, best_match)

\* A matcher that leaves a taken candidate in the list.
TakeMatch_keep(c2, unmatched, best_match) == unmatched

\* match_clos, "unmatched_clos2.remove(best_match)": without the first
\* element equal to best_match.
TakeMatch(c2, unmatched, best_match) ==
    LET hits == {k \in 1..Len(unmatched) : c2[unmatched[k]] = c2[best_match]}
    IN  IF hits = {} THEN unmatched
        ELSE LET k == CHOOSE x \in hits : \A y \in hits : x <= y
             IN  SubSeq(unmatched, 1, k - 1) \o SubSeq(unmatched, k + 1, Len(unmatched))

\* The similarity the embedding stub gives two texts: stub is a set of
\* records [texts, similarity] with one record for the pair.
StubSimilarity(stub, text1, text2) ==
    (CHOOSE e \in stub : e.texts = <<text1, text2>>).similarity

\* match_clos, "for clo1 in unmatched_clos1": the similarity fallback as a
\* function of the order todo in which the CLOs of document 1 are taken,
\* the candidates cands, and the pairs and removed CLOs so far.
RECURSIVE similarity_fallback(_, _, _, _, _, _, _)
similarity_fallback(c1, c2, stub, todo, cands, pairs, rem) ==
    IF todo = <<>> THEN [matched |-> pairs, added |-> cands, removed |-> rem]
    ELSE LET sims == [j \in 1..Len(cands) |->
                         StubSimilarity(stub, c1[Head(todo)].original_text,
                                        c2[cands[j]].original_text)]
             best == BestMatch(sims, 1, SimThreshold, 0)
         IN  IF best # 0
             THEN similarity_fallback(c1, c2, stub, Tail(todo),
                                      TakeMatch(c2, cands, cands[best]),
                                      Append(pairs, <<Head(todo), cands[best]>>), rem)
             ELSE similarity_fallback(c1, c2, stub, Tail(todo), cands, pairs,
                                      Append(rem, Head(todo)))

\* LegalDocumentComparator.match_clos as a function of the two lists and
\* the stub: (matched, added, removed, structural_changes).
match_clos(c1, c2, stub) ==
    LET exact == ExactPairs(c1, c2, MapKeys(c1))
        fallback == similarity_fallback(c1, c2, stub, UnmatchedByHash(c1, c2),
                                        UnmatchedByHash(c2, c1), <<>>, <<>>)
    IN  [matched |-> PairsOf(SelectSeq(exact, LAMBDA e : ~e.structural))
                        \o fallback.matched,
         added |-> fallback.added,
         removed |-> fallback.removed,
         structural_changes |-> PairsOf(SelectSeq(exact, LAMBDA e : e.structural))]

\* ----------------------------------------------------------------- report

\* A count that only tells whether there is such a change.
CountWhere_present(changes, field, values) ==
    IF \E i \in 1..Len(changes) : changes[i][field] \in values THEN 1 ELSE 0

\* sum(1 for c in changes if c.<field> in values)
CountWhere(changes, field, values) ==
    Cardinality({i \in 1..Len(changes) : changes[i][field] \in values})

\* _summarize_by_type / _summarize_by_impact: a count per value that occurs.
_summarize_by_type(changes) ==
    [t \in {changes[i].type : i \in 1..Len(changes)} |->
        CountWhere(changes, "type", {t})]

_summarize_by_impact(changes) ==
    [m \in {changes[i].impact : i \in 1..Len(changes)} |->
        CountWhere(changes, "impact", {m})]

\* compare(): the change of one structural pair.
StructuralChange(clo1, clo2) ==
    LegalChange("STRUCTURAL_CHANGE", clo1.clause_uid, <<clo1>>, <<clo2>>,
                <<"Clause moved", clo1.section_id, clo2.section_id>>,
                "LOW", ConfOne, FALSE)

\* compare(): the confidence of an added or removed clause (0.3 or 0.8).
SingletonConfidence(clo) ==
    IF clo.party = "PARTY" /\ clo.action \in INVALID_ACTIONS THEN 30000 ELSE 80000

NewClause(clo) ==
    LegalChange("NEW_CLAUSE", clo.clause_uid, <<>>, <<clo>>,
                <<"New", clo.modality, clo.action, clo.object>>,
                "HIGH", SingletonConfidence(clo), SingletonConfidence(clo) < 50000)

RemovedClause(clo) ==
    LegalChange("REMOVED_CLAUSE", clo.clause_uid, <<clo>>, <<>>,
                <<"Removed", clo.modality, clo.action, clo.object>>,
                "HIGH", SingletonConfidence(clo), SingletonConfidence(clo) < 50000)

\* A change list that starts with the additions and removals.
AllChanges_additions_first(structural, matched_pairs, added_clos, removed_clos, seed) ==
    [k \in 1..Len(added_clos) |-> NewClause(added_clos[k])]
    \o [k \in 1..Len(removed_clos) |-> RemovedClause(removed_clos[k])]
    \o Flatten([k \in 1..Len(matched_pairs) |->
                   AnalyzeMatchedPair(matched_pairs[k][1], matched_pairs[k][2], seed)])
    \o [k \in 1..Len(structural) |-> StructuralChange(structural[k][1], structural[k][2])]

\* compare(): "changes" before the language equivalents are filtered out.
AllChanges(structural, matched_pairs, added_clos, removed_clos, seed) ==
    [k \in 1..Len(structural) |-> StructuralChange(structural[k][1], structural[k][2])]
    \o Flatten([k \in 1..Len(matched_pairs) |->
                   AnalyzeMatchedPair(matched_pairs[k][1], matched_pairs[k][2], seed)])
    \o [k \in 1..Len(added_clos) |-> NewClause(added_clos[k])]
    \o [k \in 1..Len(removed_clos) |-> RemovedClause(removed_clos[k])]

\* A report that keeps every change.
FilterChanges_none(changes) == changes

\* compare(): "Filter language equivalents".
FilterChanges(changes) ==
    SelectSeq(changes, LAMBDA c : c.type # "LANGUAGE_EQUIVALENT")

\* compare(): the returned report.
Report(changes) ==
    [summary |->
        [total_changes |-> Len(changes),
         by_type |-> _summarize_by_type(changes),
         by_impact |-> _summarize_by_impact(changes),
         requires_human_review |->
             CountWhere(changes, "requires_human_review", {TRUE}),
         material_changes |->
             CountWhere(changes, "impact", {"HIGH", "CRITICAL"})],
     changes |-> [k \in 1..Len(changes) |-> to_dict(changes[k])]]

\* ------------------------------------------------------------ input texts

\* "The Customer shall pay the invoice within 30 days."
EnglishClause ==
    [wording |-> 1, len |-> 60, modals |-> {"shall"}, noise |-> FALSE,
     has_verb |-> "yes", party |-> "CUSTOMER", lemma |-> "pay",
     object |-> "invoice", conditions |-> <<>>, exceptions |-> <<>>,
     timebound |-> "within 30 days", weakening |-> {}, strengthening |-> {}]

\* The same obligation in other words ("... shall make reasonable payment
\* of the invoice ..."): every hashed field is the same, the wording and the
\* qualifiers are not.
Reworded == [EnglishClause EXCEPT !.wording = 2, !.weakening = {"reasonable"}]

\* "... within 60 days."
Later60 == [EnglishClause EXCEPT !.timebound = "within 60 days"]

\* "The Vendor shall pay ..."
VendorPays == [EnglishClause EXCEPT !.party = "VENDOR"]

\* "The Customer shall provide the data ..."
ProvideData == [EnglishClause EXCEPT !.lemma = "provide", !.object = "data"]

\* "Le Client doit payer la facture dans un delai de 30 jours.": the same
\* legal content as EnglishClause, with none of the English cue phrases in
\* it; the English spaCy pipeline and the English patterns find no party
\* and no time bound in it.
FrenchClause ==
    [wording |-> 3, len |-> 60, modals |-> {}, noise |-> FALSE,
     has_verb |-> "yes", party |-> "PARTY", lemma |-> "payer",
     object |-> "facture", conditions |-> <<>>, exceptions |-> <<>>,
     timebound |-> None, weakening |-> {}, strengthening |-> {}]

\* Strings that give no CLO: a clause of fewer than 30 characters, a heading
\* of fewer than 21, a sentence without a verb, and a clause whose verb is
\* one of INVALID_ACTIONS ("The Customer shall be ...").
ShortClause == [EnglishClause EXCEPT !.len = 25]
Heading == [EnglishClause EXCEPT !.len = 10, !.modals = {}]
NoVerb == [EnglishClause EXCEPT !.has_verb = "no"]
ShallBe == [EnglishClause EXCEPT !.lemma = "BE"]

\* "The Customer shall provide the data within 30 days." while the spaCy
\* pipeline raises on it: the verb test of is_legal_clause is passed over,
\* the party is found by the regular expressions, _extract_action falls
\* back to the word after the modal and _extract_object to the five words
\* after the action.
SpacyDown ==
    [ProvideData EXCEPT !.has_verb = "raises", !.object = "the data within 30 days"]

\* The string leaves of document 1 and of document 2.
Texts1 == {EnglishClause, Later60, ProvideData}
Texts2 == {EnglishClause, Reworded, VendorPays}

\* Condition and exception phrases.  CondA2 is CondA in other words (with
\* stopwords, in another order); ExcA2 is ExcA in other words.
CondA == <<3, 4>>
CondA2 == <<1, 4, 2, 3>>
CondB == <<5>>
CondC == <<6>>
ExcA == <<3, 4, 6>>
ExcA2 == <<1, 6, 4, 3>>
ExcB == <<5, 6>>

\* One clause of document 1 with two conditions, and the clauses of
\* document 2 it is compared with: each extracted field on its own axis.
PairTexts1 ==
    {[EnglishClause EXCEPT !.modals = m, !.conditions = <<CondA, CondB>>,
                           !.exceptions = e, !.weakening = w] :
        m \in {{"shall"}, {"may"}},
        e \in {<<>>, <<ExcA, ExcB>>},
        w \in {{}, {"reasonable"}}}

PairQualifiers ==
    {[weakening |-> {}, strengthening |-> {}],
     [weakening |-> {"reasonable"}, strengthening |-> {}],
     [weakening |-> {"reasonable", "appropriate"}, strengthening |-> {}],
     [weakening |-> {}, strengthening |-> {"strict"}]}

PairScopes ==
    {[lemma |-> "pay", object |-> "invoice"],
     [lemma |-> "pay", object |-> "fees"],
     [lemma |-> "provide", object |-> "invoice"]}

PairTexts2 ==
    {[EnglishClause EXCEPT !.party = p, !.modals = m, !.lemma = s.lemma,
                           !.object = s.object, !.conditions = c,
                           !.exceptions = e, !.timebound = t,
                           !.weakening = q.weakening,
                           !.strengthening = q.strengthening] :
        p \in {"CUSTOMER", "VENDOR"},
        m \in {{"shall"}, {"may"}, {"entitled to"}},
        s \in PairScopes,
        c \in {<<CondA, CondB>>, <<CondB, CondA2>>, <<CondA, CondC>>},
        e \in {<<>>, <<ExcA>>, <<ExcB, ExcA2>>},
        t \in {"within 30 days", "within 60 days"},
        q \in PairQualifiers}

\* ---------------------------------------------------------- input documents

Sections == {"3", "7"}

\* The key of the i-th clause inside its section.
ClauseKey(i) == CASE i = 1 -> "1" [] i = 2 -> "2" [] OTHER -> "3"

\* The sections of the entries, in the order of their first occurrence.
SectionsInOrder(entries) ==
    AtIndices([i \in 1..Len(entries) |-> entries[i].sec],
              {i \in 1..Len(entries) :
                  \A j \in 1..(i - 1) : entries[j].sec # entries[i].sec},
              1)

\* {"<sec>": {"<i>": <text>, ...}, ...}: the tree holding the i-th entry's
\* text at the path <sec>.<i>.
TreeOf(entries) ==
    LET secs == SectionsInOrder(entries)
    IN  Dict([k \in 1..Len(secs) |->
                Item(secs[k],
                     Dict(AtIndices([i \in 1..Len(entries) |->
                                        Item(ClauseKey(i), Str(entries[i].text))],
                                    {i \in 1..Len(entries) : entries[i].sec = secs[k]},
                                    1)))])

Entries(texts) ==
    UNION {[1..n -> [sec : Sections, text : texts]] : n \in 0..MaxClauses}

\* Trees that are empty, malformed, or have no surviving clause.
DegenerateTrees ==
    {Dict(<<>>),
     Other,
     Str(EnglishClause),
     List(<<Str(EnglishClause), Other>>),
     Dict(<<Item("3", Other), Item("7", List(<<Other>>))>>),
     Dict(<<Item("summary", Dict(<<Item("1", Str(EnglishClause))>>))>>),
     Dict(<<Item("3", Dict(<<Item("1", Str(FrenchClause))>>))>>),
     Dict(<<Item("3", Str(ShortClause)), Item("7", Str(Heading))>>),
     Dict(<<Item("3", Dict(<<Item("1", Str(NoVerb)), Item("2", Str(ShallBe))>>))>>)}

Trees(texts) == {TreeOf(e) : e \in Entries(texts)} \cup DegenerateTrees

\* {"<sec>": {"<key>": <text>}}: one clause at the path <sec>.<key>.
OneClause(sec, key, text) == Dict(<<Item(sec, Dict(<<Item(key, Str(text))>>))>>)

\* ------------------------------------------------------------------ state

VARIABLES
    doc1, doc2,            \* the two trees compare() is called with
    pc,                    \* where compare() is
    raised,                \* whether compare() has raised
    clos1, clos2,          \* the CLO lists (extracted, then deduplicated)
    matched,               \* match_clos: the matched pairs
    structural_changes,    \* match_clos: the structural pairs
    unmatched_clos1,       \* match_clos: document-1 CLOs still to be tried
    unmatched_clos2,       \* match_clos: document-2 CLOs not taken ("added")
    removed,               \* match_clos: the removed CLOs
    report,                \* the returned report: <<>> until compare() returns
    encoded,               \* the similarities the embedding stub has given
    first_report,          \* the report of an earlier call on the same trees
    SPACY_MODEL,           \* the module-level variable SPACY_MODEL
    EMBEDDING_MODEL,       \* the module-level variable EMBEDDING_MODEL
    other                  \* the locals of a second call that is not running

vars == <<doc1, doc2, pc, raised, clos1, clos2, matched, structural_changes,
          unmatched_clos1, unmatched_clos2, removed, report, encoded,
          first_report, SPACY_MODEL, EMBEDDING_MODEL, other>>

\* The module-level variables of document_comparison.py.
globals == <<SPACY_MODEL, EMBEDDING_MODEL>>

\* The cosine similarities the embedding stub may return, in 1/100.
SimLevels == {80, 88, 95}

\* ---------------------------------------------------------------- compare()

\* LegalDocumentComparator.compare as a function of the two trees, the
\* embedding stub and the hash seed of the process: the report returned.
compare(doc1_json, doc2_json, stub, seed) ==
    LET c1 == _deduplicate_clos(_extract_clos_from_doc(doc1_json).clos)
        c2 == _deduplicate_clos(_extract_clos_from_doc(doc2_json).clos)
        m == match_clos(c1, c2, stub)
        both(pairs) == [k \in 1..Len(pairs) |-> <<c1[pairs[k][1]], c2[pairs[k][2]]>>]
    IN  Report(FilterChanges(
            AllChanges(both(m.structural_changes), both(m.matched),
                       [k \in 1..Len(m.added) |-> c2[m.added[k]]],
                       [k \in 1..Len(m.removed) |-> c1[m.removed[k]]], seed)))

\* The module has just been imported, and one call is made.
Imported ==
    /\ SPACY_MODEL = None
    /\ EMBEDDING_MODEL = None
    /\ other = <<>>

\* compare() has not started.
NotStarted ==
    /\ pc = "start"
    /\ raised = FALSE
    /\ clos1 = <<>>
    /\ clos2 = <<>>
    /\ matched = <<>>
    /\ structural_changes = <<>>
    /\ unmatched_clos1 = <<>>
    /\ unmatched_clos2 = <<>>
    /\ removed = <<>>
    /\ report = <<>>

\* compare() is called with two trees.
Init ==
    /\ doc1 \in Trees(Texts1)
    /\ doc2 \in Trees(Texts2)
    /\ NotStarted
    /\ encoded = {}
    /\ first_report = <<>>
    /\ Imported

\* compare() is called with two one-clause trees; the clause of document 2
\* is at the same path or in a renumbered section.
InitPair ==
    /\ doc1 \in {OneClause("5", "2", t) : t \in PairTexts1}
    /\ doc2 \in {OneClause(s[1], s[2], t) :
                    s \in {<<"5", "2">>, <<"6", "1">>}, t \in PairTexts2}
    /\ NotStarted
    /\ encoded = {}
    /\ first_report = <<>>
    /\ Imported

\* get_spacy_model(): the value of SPACY_MODEL after the call.
get_spacy_model == IF SPACY_MODEL = None THEN "en_core_web_trf" ELSE SPACY_MODEL

\* clos1 = _extract_clos_from_doc(doc1_json); clos2 = ...(doc2_json)
ExtractClos ==
    /\ pc = "start"
    /\ LET w1 == _extract_clos_from_doc(doc1)
           w2 == _extract_clos_from_doc(doc2)
       IN  /\ raised' = (w1.raised \/ w2.raised)
           /\ clos1' = w1.clos
           /\ clos2' = w2.clos
           /\ pc' = IF w1.raised \/ w2.raised THEN "raised" ELSE "extracted"
           /\ SPACY_MODEL' = IF w1.nlp \/ w2.nlp THEN get_spacy_model ELSE SPACY_MODEL
    /\ UNCHANGED <<doc1, doc2, matched, structural_changes, unmatched_clos1,
                   unmatched_clos2, removed, report, encoded, first_report,
                   EMBEDDING_MODEL, other>>

\* clos1 = _deduplicate_clos(clos1); clos2 = _deduplicate_clos(clos2)
DeduplicateClos ==
    /\ pc = "extracted"
    /\ clos1' = _deduplicate_clos(clos1)
    /\ clos2' = _deduplicate_clos(clos2)
    /\ pc' = "deduplicated"
    /\ UNCHANGED <<doc1, doc2, raised, matched, structural_changes,
                   unmatched_clos1, unmatched_clos2, removed, report, encoded,
                   first_report, SPACY_MODEL, EMBEDDING_MODEL, other>>

\* match_clos, the exact tier: the maps, the loop over map1, the two
\* unmatched lists.
MatchExact ==
    /\ pc = "deduplicated"
    /\ LET exact == ExactPairs(clos1, clos2, MapKeys(clos1))
       IN  /\ matched' = PairsOf(SelectSeq(exact, LAMBDA e : ~e.structural))
           /\ structural_changes' = PairsOf(SelectSeq(exact, LAMBDA e : e.structural))
    /\ unmatched_clos1' = UnmatchedByHash(clos1, clos2)
    /\ unmatched_clos2' = UnmatchedByHash(clos2, clos1)
    /\ removed' = <<>>
    /\ pc' = "get_embedding_model"
    /\ UNCHANGED <<doc1, doc2, raised, clos1, clos2, report, encoded, first_report,
                   SPACY_MODEL, EMBEDDING_MODEL, other>>

\* The locals that get_embedding_model() does not touch.
match_clos_locals ==
    <<doc1, doc2, raised, clos1, clos2, matched, structural_changes,
      unmatched_clos1, unmatched_clos2, removed, report, encoded, first_report,
      other>>

\* match_clos calls get_embedding_model(): "if EMBEDDING_MODEL is None".
GetEmbeddingModel ==
    /\ pc = "get_embedding_model"
    /\ pc' = IF EMBEDDING_MODEL = None THEN "load_embedding_model" ELSE "similarity"
    /\ UNCHANGED <<match_clos_locals, SPACY_MODEL, EMBEDDING_MODEL>>

\* get_embedding_model(): EMBEDDING_MODEL = SentenceTransformer(...), after
\* the test found it None.
LoadEmbeddingModel ==
    /\ pc = "load_embedding_model"
    /\ EMBEDDING_MODEL' = "BAAI/bge-large-en-v1.5"
    /\ pc' = "similarity"
    /\ UNCHANGED <<match_clos_locals, SPACY_MODEL>>

\* match_clos, one round of "for clo1 in unmatched_clos1" with the
\* similarities sims[j] of clo1 to the remaining candidates of document 2.
SimilarRound(sims) ==
    /\ LET best == BestMatch(sims, 1, SimThreshold, 0)
       IN  IF best # 0
           THEN /\ matched' =
                       Append(matched, <<Head(unmatched_clos1), unmatched_clos2[best]>>)
                /\ unmatched_clos2' =
                       TakeMatch(clos2, unmatched_clos2, unmatched_clos2[best])
                /\ removed' = removed
           ELSE /\ removed' = Append(removed, Head(unmatched_clos1))
                /\ UNCHANGED <<matched, unmatched_clos2>>
    /\ unmatched_clos1' = Tail(unmatched_clos1)
    /\ UNCHANGED <<doc1, doc2, pc, raised, clos1, clos2, structural_changes,
                   report, first_report, SPACY_MODEL, EMBEDDING_MODEL, other>>

\* The embedding stub gives a similarity for each remaining candidate.
MatchSimilar ==
    /\ pc = "similarity"
    /\ unmatched_clos1 # <<>>
    /\ \E sims \in [1..Len(unmatched_clos2) -> SimLevels] : SimilarRound(sims)
    /\ UNCHANGED encoded

\* The texts whose similarity the j-th candidate's entry of sims is.
EncodedPair(j) ==
    <<clos1[Head(unmatched_clos1)].original_text,
      clos2[unmatched_clos2[j]].original_text>>

\* The same round with a stub that is a function of the two texts: it
\* gives a pair of texts the similarity it gave it before.
MatchSimilarStub ==
    /\ pc = "similarity"
    /\ unmatched_clos1 # <<>>
    /\ \E sims \in [1..Len(unmatched_clos2) -> SimLevels] :
          /\ \A j \in 1..Len(unmatched_clos2) :
                \A e \in encoded : e.texts = EncodedPair(j) => e.similarity = sims[j]
          /\ encoded' = encoded \cup
                 {[texts |-> EncodedPair(j), similarity |-> sims[j]] :
                     j \in 1..Len(unmatched_clos2)}
          /\ SimilarRound(sims)

\* The CLOs named by a list of indices, and by a list of pairs of indices.
ClosAt(clos, indices) == [k \in 1..Len(indices) |-> clos[indices[k]]]
PairsAt(pairs) == [k \in 1..Len(pairs) |-> <<clos1[pairs[k][1]], clos2[pairs[k][2]]>>]

\* compare() after match_clos: the change list, the filter, the summary.
\* The hash seed is drawn when the interpreter starts (PYTHONHASHSEED is
\* random by default): a call sees the seed of the process that serves it.
BuildReport ==
    /\ pc = "similarity"
    /\ unmatched_clos1 = <<>>
    /\ \E seed \in HashSeeds :
          report' = <<Report(FilterChanges(
                         AllChanges(PairsAt(structural_changes), PairsAt(matched),
                                    ClosAt(clos2, unmatched_clos2),
                                    ClosAt(clos1, removed), seed)))>>
    /\ pc' = "done"
    /\ UNCHANGED <<doc1, doc2, raised, clos1, clos2, matched, structural_changes,
                   unmatched_clos1, unmatched_clos2, removed, encoded, first_report,
                   SPACY_MODEL, EMBEDDING_MODEL, other>>

\* compare() is called a second time with the same two trees.
CompareAgain ==
    /\ pc = "done"
    /\ first_report = <<>>
    /\ first_report' = report
    /\ pc' = "start"
    /\ raised' = FALSE
    /\ clos1' = <<>>
    /\ clos2' = <<>>
    /\ matched' = <<>>
    /\ structural_changes' = <<>>
    /\ unmatched_clos1' = <<>>
    /\ unmatched_clos2' = <<>>
    /\ removed' = <<>>
    /\ report' = <<>>
    /\ UNCHANGED <<doc1, doc2, encoded, SPACY_MODEL, EMBEDDING_MODEL, other>>

Next ==
    \/ ExtractClos
    \/ DeduplicateClos
    \/ MatchExact
    \/ GetEmbeddingModel
    \/ LoadEmbeddingModel
    \/ MatchSimilar
    \/ BuildReport

Spec == Init /\ [][Next]_vars

\* The same pipeline on pairs of one-clause documents.
SpecPair == InitPair /\ [][Next]_vars

\* Two calls on the same pair of documents with a deterministic stub.
NextTwice ==
    \/ ExtractClos
    \/ DeduplicateClos
    \/ MatchExact
    \/ GetEmbeddingModel
    \/ LoadEmbeddingModel
    \/ MatchSimilarStub
    \/ BuildReport
    \/ CompareAgain

\* The pairs of one-clause documents of the two calls.
TwiceTexts2 ==
    {t \in PairTexts2 :
        /\ t.party = "CUSTOMER"
        /\ t.conditions = <<CondA, CondB>>
        /\ t.exceptions = <<>>}

InitTwice ==
    /\ doc1 \in {OneClause("5", "2", t) : t \in PairTexts1}
    /\ doc2 \in {OneClause(s[1], s[2], t) :
                    s \in {<<"5", "2">>, <<"6", "1">>}, t \in TwiceTexts2}
    /\ NotStarted
    /\ encoded = {}
    /\ first_report = <<>>
    /\ Imported

SpecTwice == InitTwice /\ [][NextTwice]_vars

\* compare() is called with two trees while the linguistic service fails
\* on one of the clauses of document 1.
InitFaulty ==
    /\ doc1 \in Trees({EnglishClause, Later60, SpacyDown})
    /\ doc2 \in Trees(Texts2)
    /\ NotStarted
    /\ encoded = {}
    /\ first_report = <<>>
    /\ Imported

\* match_clos, the inner loop of the similarity fallback: model.encode
\* raises on one of the two texts.  No handler encloses the call, in
\* match_clos or in compare().
EncodeRaises ==
    /\ pc = "similarity"
    /\ unmatched_clos1 # <<>>
    /\ unmatched_clos2 # <<>>
    /\ raised' = TRUE
    /\ pc' = "raised"
    /\ UNCHANGED <<doc1, doc2, clos1, clos2, matched, structural_changes,
                   unmatched_clos1, unmatched_clos2, removed, report, encoded,
                   first_report, SPACY_MODEL, EMBEDDING_MODEL, other>>

\* compare() with services that may fail.
NextFaulty ==
    \/ ExtractClos
    \/ DeduplicateClos
    \/ MatchExact
    \/ GetEmbeddingModel
    \/ LoadEmbeddingModel
    \/ MatchSimilar
    \/ EncodeRaises
    \/ BuildReport

SpecFaulty == InitFaulty /\ [][NextFaulty]_vars

\* ------------------------------------------------------ two calls at once

\* The locals of the running call of compare().
locals ==
    [doc1 |-> doc1, doc2 |-> doc2, pc |-> pc, raised |-> raised,
     clos1 |-> clos1, clos2 |-> clos2, matched |-> matched,
     structural_changes |-> structural_changes,
     unmatched_clos1 |-> unmatched_clos1, unmatched_clos2 |-> unmatched_clos2,
     removed |-> removed, report |-> report]

\* The interpreter switches from the thread of one call to the thread of
\* the other: each call keeps its locals, the module-level variables are
\* the same for both.
Switch ==
    /\ other # <<>>
    /\ other' = locals
    /\ doc1' = other.doc1
    /\ doc2' = other.doc2
    /\ pc' = other.pc
    /\ raised' = other.raised
    /\ clos1' = other.clos1
    /\ clos2' = other.clos2
    /\ matched' = other.matched
    /\ structural_changes' = other.structural_changes
    /\ unmatched_clos1' = other.unmatched_clos1
    /\ unmatched_clos2' = other.unmatched_clos2
    /\ removed' = other.removed
    /\ report' = other.report
    /\ UNCHANGED <<encoded, first_report, SPACY_MODEL, EMBEDDING_MODEL>>

\* The texts of the documents of two concurrent calls.
ConcurrentTexts1 == {EnglishClause, Later60, Heading}
ConcurrentTexts2 == {EnglishClause, Reworded, VendorPays}

\* An embedding stub that gives every pair of texts the same similarity.
ConstantStub(level) ==
    {[texts |-> <<t1, t2>>, similarity |-> level] :
        t1 \in ConcurrentTexts1, t2 \in ConcurrentTexts2}

\* The locals of a call of compare() that has not started.
StartWith(d1, d2) ==
    [doc1 |-> d1, doc2 |-> d2, pc |-> "start", raised |-> FALSE,
     clos1 |-> <<>>, clos2 |-> <<>>, matched |-> <<>>,
     structural_changes |-> <<>>, unmatched_clos1 |-> <<>>,
     unmatched_clos2 |-> <<>>, removed |-> <<>>, report |-> <<>>]

\* Two calls of compare() on two pairs of one-clause documents, in two
\* threads of a process that has just imported the module.
InitConcurrent ==
    /\ doc1 \in {OneClause("3", "1", t) : t \in ConcurrentTexts1}
    /\ doc2 \in {OneClause("3", "1", t) : t \in ConcurrentTexts2}
    /\ NotStarted
    /\ other \in {StartWith(OneClause("4", "2", t1), OneClause("4", "2", t2)) :
                     t1 \in ConcurrentTexts1, t2 \in ConcurrentTexts2}
    /\ encoded \in {ConstantStub(level) : level \in SimLevels}
    /\ first_report = <<>>
    /\ SPACY_MODEL = None
    /\ EMBEDDING_MODEL = None

NextConcurrent ==
    \/ ExtractClos
    \/ DeduplicateClos
    \/ MatchExact
    \/ GetEmbeddingModel
    \/ LoadEmbeddingModel
    \/ MatchSimilarStub
    \/ BuildReport
    \/ Switch

SpecConcurrent == InitConcurrent /\ [][NextConcurrent]_vars

\* ------------------------------------------------------------ nested trees

\* Trees with clauses in nested mappings, in lists, under ignore-keys and
\* below the minimum length.
WalkTrees ==
    {OneClause("3", "1", EnglishClause),
     Dict(<<Item("3", Dict(<<Item("1", Dict(<<Item("a", Str(Later60))>>))>>))>>),
     Dict(<<Item("3", List(<<Str(EnglishClause), Str(VendorPays)>>))>>),
     Dict(<<Item("3", List(<<Dict(<<Item("1", Str(EnglishClause))>>), Str(Later60)>>))>>),
     List(<<Dict(<<Item("1", Str(VendorPays))>>)>>),
     Dict(<<Item("summary", Dict(<<Item("1", Str(EnglishClause))>>)),
            Item("3", Dict(<<Item("1", Str(Later60))>>))>>),
     Dict(<<Item("3", Dict(<<Item("metadata", List(<<Dict(<<Item("1", Str(EnglishClause))>>)>>)),
                            Item("1", Str(VendorPays))>>))>>),
     Dict(<<Item("3", Dict(<<Item("1", Str(ShortClause)), Item("2", Str(ProvideData))>>))>>),
     Dict(<<Item("3", Dict(<<Item("1", Str(Heading)), Item("2", Str(NoVerb))>>)),
            Item("7", Dict(<<Item("1", Str(EnglishClause))>>))>>)}

\* ------------------------------------------ clauses that repeat an exception

\* "The Customer shall pay the invoice within 30 days" with exception
\* phrases: extract_exceptions appends the matches of each of its patterns,
\* so a clause that states an exception twice ("except for ..., excluding
\* ...") gives it twice.
RepeatTexts ==
    {[EnglishClause EXCEPT !.party = p, !.exceptions = e, !.timebound = t] :
        p \in {"CUSTOMER", "VENDOR"},
        e \in {<<>>, <<ExcA>>, <<ExcA, ExcA>>, <<ExcA, ExcA2>>, <<ExcA, ExcB>>},
        t \in {"within 30 days", "within 60 days"}}

\* compare() is called with two one-clause trees of such clauses.
InitRepeat ==
    /\ doc1 \in {OneClause("5", "2", t) : t \in {x \in RepeatTexts : x.party = "CUSTOMER"}}
    /\ doc2 \in {OneClause("5", "2", t) : t \in RepeatTexts}
    /\ NotStarted
    /\ encoded = {}
    /\ first_report = <<>>
    /\ Imported

SpecRepeat == InitRepeat /\ [][Next]_vars

\* compare() is called with a tree as both documents, or with a tree and
\* a one-clause tree.
InitSelf ==
    /\ doc1 \in Trees(Texts1) \cup WalkTrees
    /\ doc2 \in {doc1, OneClause("3", "1", VendorPays)}
    /\ NotStarted
    /\ encoded = {}
    /\ first_report = <<>>
    /\ Imported

SpecSelf == InitSelf /\ [][Next]_vars

\* compare() is called with two such trees.
InitWalk ==
    /\ doc1 \in WalkTrees
    /\ doc2 \in WalkTrees
    /\ NotStarted
    /\ encoded = {}
    /\ first_report = <<>>
    /\ Imported

SpecWalk == InitWalk /\ [][Next]_vars

\* ------------------------------------------- clauses of uncertain extraction

\* Clauses whose party is found or not ("PARTY") and whose object is long
\* or shorter than 5 characters.
ConfidenceTexts ==
    {[EnglishClause EXCEPT !.party = p, !.object = o, !.timebound = t] :
        p \in {"CUSTOMER", "PARTY"},
        o \in {"invoice", "fees"},
        t \in {"within 30 days", "within 60 days"}}

\* compare() is called with two one-clause documents.
InitConfidence ==
    /\ doc1 \in {OneClause("3", "1", t) : t \in ConfidenceTexts}
    /\ doc2 \in {OneClause(s, "1", t) : s \in {"3", "7"}, t \in ConfidenceTexts}
    /\ NotStarted
    /\ encoded = {}
    /\ first_report = <<>>
    /\ Imported

SpecConfidence == InitConfidence /\ [][Next]_vars

\* ------------------------------------------------- clauses that are noise

\* Clauses with a non-informative verb ("shall be"), a placeholder object
\* ("duty") or an object of two characters ("id"), with a party that is
\* found or not, and sound clauses.
NoiseTexts ==
    {[EnglishClause EXCEPT !.party = p, !.lemma = s[1], !.object = s[2]] :
        p \in {"CUSTOMER", "PARTY"},
        s \in {<<"pay", "invoice">>, <<"BE", "invoice">>,
               <<"pay", "duty">>, <<"pay", "id">>}}

\* compare() is called with two one-clause documents.
InitNoise ==
    /\ doc1 \in {OneClause("3", "1", t) : t \in NoiseTexts}
    /\ doc2 \in {OneClause("3", "1", t) : t \in NoiseTexts}
    /\ NotStarted
    /\ encoded = {}
    /\ first_report = <<>>
    /\ Imported

SpecNoise == InitNoise /\ [][Next]_vars

\* ------------------------------------------------- clauses of every modal

\* The keys of MODALITY_MAP that are substrings of a clause, for clauses
\* with one modal expression: "shall not" contains "shall".
ModalSets ==
    {{"shall"}, {"must"}, {"will"}, {"may"}, {"can"},
     {"shall", "shall not"}, {"must", "must not"}, {"may", "may not"},
     {"entitled to"}, {"has the right"}}

ModalTexts == {[EnglishClause EXCEPT !.modals = m] : m \in ModalSets}

\* compare() is called with two one-clause documents.
InitModality ==
    /\ doc1 \in {OneClause("3", "1", t) : t \in ModalTexts}
    /\ doc2 \in {OneClause("3", "1", t) : t \in ModalTexts}
    /\ NotStarted
    /\ encoded = {}
    /\ first_report = <<>>
    /\ Imported

SpecModality == InitModality /\ [][Next]_vars

\* ------------------------------------- the similarity fallback with a stub

\* The texts of two documents that have no intent_hash in common.
FallbackTexts1 == {Later60, ProvideData}
FallbackTexts2 == {EnglishClause, VendorPays}

\* {"3": {"1": <text>, "2": <text>, ...}}: one section of up to MaxClauses
\* clauses.
OneSection(texts) ==
    {TreeOf(e) : e \in UNION {[1..n -> [sec : {"3"}, text : texts]] : n \in 1..MaxClauses}}

\* An embedding stub: a similarity for each pair of texts.
Stubs ==
    {{[texts |-> p, similarity |-> f[p]] : p \in FallbackTexts1 \X FallbackTexts2} :
        f \in [FallbackTexts1 \X FallbackTexts2 -> SimLevels]}

\* compare() is called with two such documents and an embedding service
\* that is a function of the two texts.
InitFallback ==
    /\ doc1 \in OneSection(FallbackTexts1)
    /\ doc2 \in OneSection(FallbackTexts2)
    /\ NotStarted
    /\ encoded \in Stubs
    /\ first_report = <<>>
    /\ Imported

NextFallback ==
    \/ ExtractClos
    \/ DeduplicateClos
    \/ MatchExact
    \/ GetEmbeddingModel
    \/ LoadEmbeddingModel
    \/ MatchSimilarStub
    \/ BuildReport

SpecFallback == InitFallback /\ [][NextFallback]_vars

\* ----------------------------------- GeminiDocumentComparator (AI_comparasion)

\* len() of a key of the trees.
KeyLen(key) == IF key = "summary" THEN 7 ELSE 1

\* len(str(value)): the length of Python's repr of a JSON value.
RECURSIVE PyStrLen(_)
PyStrLen(value) ==
    CASE value.tag = "str" -> value.text.len + 2
      [] value.tag = "dict" ->
             2 + SumSeq([k \in 1..Len(value.items) |->
                            KeyLen(value.items[k].key) + 4 + PyStrLen(value.items[k].value)])
               + (IF Len(value.items) > 1 THEN 2 * (Len(value.items) - 1) ELSE 0)
      [] value.tag = "list" ->
             2 + SumSeq([k \in 1..Len(value.items) |-> PyStrLen(value.items[k])])
               + (IF Len(value.items) > 1 THEN 2 * (Len(value.items) - 1) ELSE 0)
      [] OTHER -> 4

\* len(json.dumps(value, indent=2)) for a value at nesting depth d.
RECURSIVE JsonLen(_, _)
JsonLen(value, d) ==
    CASE value.tag = "str" -> value.text.len + 2
      [] value.tag = "dict" ->
             IF value.items = <<>> THEN 2
             ELSE 2 * d + 3 + 2 * (Len(value.items) - 1)
                  + SumSeq([k \in 1..Len(value.items) |->
                               2 * (d + 1) + KeyLen(value.items[k].key) + 4
                               + JsonLen(value.items[k].value, d + 1)])
      [] value.tag = "list" ->
             IF value.items = <<>> THEN 2
             ELSE 2 * d + 3 + 2 * (Len(value.items) - 1)
                  + SumSeq([k \in 1..Len(value.items) |->
                               2 * (d + 1) + JsonLen(value.items[k], d + 1)])
      [] OTHER -> 4

\* "if len(doc1_str) + len(doc2_str) > 500000"
SizeLimit == 500000
OverLimit(doc1_json, doc2_json) ==
    JsonLen(doc1_json, 0) + JsonLen(doc2_json, 0) > SizeLimit

\* _extract_sections(doc, max_sections=20): the items of the first
\* max_sections keys whose value is a dict or a list with a repr of more
\* than 100 characters.
MaxSections == 20
MinSectionRepr == 100
_extract_sections(doc) ==
    IF doc.tag # "dict" THEN <<>>
    ELSE LET first == SubSeq(doc.items, 1,
                             IF Len(doc.items) < MaxSections THEN Len(doc.items)
                             ELSE MaxSections)
         IN  SelectSeq(first, LAMBDA item :
                 /\ item.value.tag \in {"dict", "list"}
                 /\ PyStrLen(item.value) > MinSectionRepr)

\* The keys of a dict given by its items, and sections.get(name, {}).
KeysOf(items) == {items[k].key : k \in 1..Len(items)}
SectionGet(items, name) ==
    IF name \in KeysOf(items)
    THEN (CHOOSE item \in Range(items) : item.key = name).value
    ELSE Dict(<<>>)

\* "if not sec": an empty dict or an empty list.
Falsy(value) == value.tag \in {"dict", "list"} /\ value.items = <<>>

\* json.dumps(sec)[:500]: the first 500 characters of the serialization.
DumpsPrefix(value) == [first_500_of |-> value]

\* model.generate_content with the prompt of the two documents, parsed: a
\* stub of the AI service that reports one change for two documents that
\* differ and none for two equal documents.
generate_content(doc1_json, doc2_json) ==
    IF doc1_json = doc2_json THEN <<>>
    ELSE <<[type |-> "SCOPE_CHANGE", path |-> "unknown",
            from_value |-> Some(doc1_json), to_value |-> Some(doc2_json),
            impact |-> "MEDIUM"]>>

\* _validate_and_enrich: the changes whose type and impact are names of
\* the enums, and their number.
ChangeTypeNames ==
    {"NO_IMPACT_CHANGE", "STRUCTURAL_CHANGE", "OBLIGATION_CHANGE", "SCOPE_CHANGE",
     "PARTY_CHANGE", "CONDITION_CHANGE", "TIMING_CHANGE", "RISK_CHANGE",
     "NEW_CLAUSE", "REMOVED_CLAUSE", "LANGUAGE_EQUIVALENT"}
ImpactLevelNames == {"NONE", "LOW", "MEDIUM", "HIGH", "CRITICAL"}
_validate_and_enrich(changes) ==
    LET validated_changes ==
            SelectSeq(changes, LAMBDA c :
                c.type \in ChangeTypeNames /\ c.impact \in ImpactLevelNames)
    IN  [summary |-> [total_changes |-> Len(validated_changes)],
         changes |-> validated_changes]

\* GeminiDocumentComparator.compare and _fallback_chunked_comparison.  The
\* loop over set(list(sections1.keys()) + list(sections2.keys())) takes
\* the names in the order of the process's hash seed.
RECURSIVE gemini_compare(_, _, _)
RECURSIVE _fallback_chunked_comparison(_, _, _)

gemini_compare(doc1_json, doc2_json, seed) ==
    IF OverLimit(doc1_json, doc2_json)
    THEN _fallback_chunked_comparison(doc1_json, doc2_json, seed)
    ELSE _validate_and_enrich(generate_content(doc1_json, doc2_json))

_fallback_chunked_comparison(doc1_json, doc2_json, seed) ==
    LET sections1 == _extract_sections(doc1_json)
        sections2 == _extract_sections(doc2_json)
        names == JoinSet(KeysOf(sections1) \cup KeysOf(sections2), seed)
        section_changes(section_name) ==
            LET sec1 == SectionGet(sections1, section_name)
                sec2 == SectionGet(sections2, section_name)
            IN  IF Falsy(sec1)
                THEN <<[type |-> "NEW_CLAUSE", path |-> section_name,
                        from_value |-> <<>>, to_value |-> Some(DumpsPrefix(sec2)),
                        impact |-> "HIGH"]>>
                ELSE IF Falsy(sec2)
                THEN <<[type |-> "REMOVED_CLAUSE", path |-> section_name,
                        from_value |-> Some(DumpsPrefix(sec1)), to_value |-> <<>>,
                        impact |-> "HIGH"]>>
                ELSE gemini_compare(sec1, sec2, seed).changes
    IN  _validate_and_enrich(
            Flatten([k \in 1..Len(names) |-> section_changes(names[k])]))

\* A clause of 200000 characters, a section holding it and a second
\* clause, a section of one clause (a repr of 69 characters).
HugeClause == [EnglishClause EXCEPT !.len = 200000, !.wording = 3]
BigSection(text) == Dict(<<Item("1", Str(HugeClause)), Item("2", Str(text))>>)
SmallSection(text) == Dict(<<Item("1", Str(text))>>)

\* The top-level values of the documents handed to the AI comparator; a
\* document has the keys "3", "7" and "9" or some of them.
Absent == [tag |-> "absent"]
SectionValues ==
    {Absent, BigSection(EnglishClause), BigSection(Later60), SmallSection(EnglishClause)}
LastSectionValues ==
    {Absent, SmallSection(EnglishClause), SmallSection(Later60), Str(EnglishClause)}
ChunkedDoc(v3, v7, v9) ==
    Dict(SelectSeq(<<Item("3", v3), Item("7", v7), Item("9", v9)>>,
                   LAMBDA item : item.value # Absent))
ChunkedDocs ==
    {ChunkedDoc(v3, v7, v9) :
        v3 \in SectionValues, v7 \in SectionValues, v9 \in LastSectionValues}

\* GeminiDocumentComparator.compare is called with two trees.
InitChunked ==
    /\ doc1 \in ChunkedDocs
    /\ doc2 \in ChunkedDocs
    /\ NotStarted
    /\ encoded = {}
    /\ first_report = <<>>
    /\ Imported

\* The locals of LegalDocumentComparator.compare, which the AI comparator
\* does not use.
core_locals ==
    <<raised, clos1, clos2, matched, structural_changes, unmatched_clos1,
      unmatched_clos2, removed, encoded, first_report, SPACY_MODEL,
      EMBEDDING_MODEL, other>>

\* GeminiDocumentComparator.compare within the size limit: one call of
\* the AI service.
GeminiCompare ==
    /\ pc = "start"
    /\ ~OverLimit(doc1, doc2)
    /\ \E seed \in HashSeeds : report' = <<gemini_compare(doc1, doc2, seed)>>
    /\ pc' = "done"
    /\ UNCHANGED <<doc1, doc2, core_locals>>

\* GeminiDocumentComparator.compare over the size limit: the chunked
\* comparison.
FallbackChunkedComparison ==
    /\ pc = "start"
    /\ OverLimit(doc1, doc2)
    /\ \E seed \in HashSeeds :
          report' = <<_fallback_chunked_comparison(doc1, doc2, seed)>>
    /\ pc' = "chunked"
    /\ UNCHANGED <<doc1, doc2, core_locals>>

NextChunked == GeminiCompare \/ FallbackChunkedComparison

SpecChunked == InitChunked /\ [][NextChunked]_vars

\* =================================================================== claims

\* compare() has returned its report.
Returned == pc = "done"

\* The change list of the returned report.
Changes == report[1].changes

\* The i-th CLO of document 1 and the j-th CLO of document 2 as a report
\* shows them (from_value, to_value).
Shown1(i) == <<_format_clo(clos1[i])>>
Shown2(j) == <<_format_clo(clos2[j])>>

\* The positions in the change list of the changes that mention the i-th
\* CLO of document 1 (as from_value) or the j-th CLO of document 2 (as
\* to_value).
ChangesAbout(i, j) ==
    {k \in 1..Len(Changes) :
        Changes[k].from_value = Shown1(i) \/ Changes[k].to_value = Shown2(j)}

\* The labels the Semantic Gate gives.
GateLabels ==
    {"PARTY_CHANGE", "OBLIGATION_CHANGE", "EXCEPTION_CHANGE", "RISK_CHANGE",
     "SCOPE_CHANGE", "CONDITION_CHANGE", "TIMING_CHANGE", "NO_IMPACT_CHANGE",
     "LANGUAGE_EQUIVALENT"}

\* The i-th CLO of document 1 and the j-th CLO of document 2 have the same
\* intent_hash and lie in different sections (the leading segment of
\* clause_uid) / in the same section.
SameHash(i, j) == clos1[i].intent_hash = clos2[j].intent_hash
Moved(i, j) == Head(clos1[i].clause_uid) # Head(clos2[j].clause_uid)

\* C1: when compare() has returned, for every intent_hash present in both
\* deduplicated documents whose two CLOs have different section_id, the
\* report contains exactly one change that mentions either CLO; it is the
\* STRUCTURAL_CHANGE of that pair, with impact LOW and confidence 1.0.
C1_StructuralMove ==
    Returned =>
        \A i \in 1..Len(clos1), j \in 1..Len(clos2) :
            (SameHash(i, j) /\ Moved(i, j)) =>
                /\ Cardinality(ChangesAbout(i, j)) = 1
                /\ \A k \in ChangesAbout(i, j) :
                      /\ Changes[k].type = "STRUCTURAL_CHANGE"
                      /\ Changes[k].impact = "LOW"
                      /\ Changes[k].confidence = ConfOne
                      /\ Changes[k].from_value = Shown1(i)
                      /\ Changes[k].to_value = Shown2(j)

\* A clause moved from one section to another (and reworded on the way),
\* in documents that have other changes too.
C1_Witness ==
    /\ Returned
    /\ Len(Changes) >= 2
    /\ \E i \in 1..Len(clos1), j \in 1..Len(clos2) :
          /\ SameHash(i, j)
          /\ Moved(i, j)
          /\ clos1[i].original_text # clos2[j].original_text
          /\ Cardinality(ChangesAbout(i, j)) = 1

\* C2 as stated: every pair of CLOs, one from each document, with the same
\* intent_hash and different original_text is excluded from the report: no
\* change of the report mentions it.
C2_Excluded ==
    Returned =>
        \A i \in 1..Len(clos1), j \in 1..Len(clos2) :
            (SameHash(i, j) /\ clos1[i].original_text # clos2[j].original_text)
                => ChangesAbout(i, j) = {}

\* C2, amended: a pair of CLOs with the same intent_hash and different
\* original_text is excluded from the report when the two CLOs are in the
\* same section; when they are in different sections the only change that
\* mentions it is the STRUCTURAL_CHANGE of the pair.  In neither case does
\* it get a gate label, whatever its qualifiers are.
C2_ExcludedInPlace ==
    Returned =>
        \A i \in 1..Len(clos1), j \in 1..Len(clos2) :
            (SameHash(i, j) /\ clos1[i].original_text # clos2[j].original_text)
                => /\ ~Moved(i, j) => ChangesAbout(i, j) = {}
                   /\ Moved(i, j) =>
                         /\ Cardinality(ChangesAbout(i, j)) = 1
                         /\ \A k \in ChangesAbout(i, j) :
                               Changes[k].type = "STRUCTURAL_CHANGE"
                   /\ \A k \in ChangesAbout(i, j) :
                         Changes[k].type \notin GateLabels

\* A reworded clause at the same path whose qualifiers differ, and nothing
\* reported.
C2_Witness ==
    /\ Returned
    /\ Changes = <<>>
    /\ \E i \in 1..Len(clos1), j \in 1..Len(clos2) :
          /\ SameHash(i, j)
          /\ ~Moved(i, j)
          /\ clos1[i].original_text # clos2[j].original_text
          /\ clos1[i].qualifiers # clos2[j].qualifiers

\* The CLOs of the k-th matched pair, and the changes that mention it.
From(k) == clos1[matched[k][1]]
To(k) == clos2[matched[k][2]]
AboutMatched(k) == ChangesAbout(matched[k][1], matched[k][2])

\* The pair is a rewording (the case of C2), which the gate never sees.
IsRewording(k) ==
    From(k).intent_hash = To(k).intent_hash
    /\ From(k).original_text # To(k).original_text

\* The first difference between two CLOs in the order of the gate.  The
\* normalized exceptions and the normalized conditions are collections:
\* they differ when one holds an element the other does not.
FirstDifference(c1, c2) ==
    IF c1.party # c2.party THEN "PARTY_CHANGE"
    ELSE IF c1.modality # c2.modality THEN "OBLIGATION_CHANGE"
    ELSE IF Range(c1.normalized_exceptions) # Range(c2.normalized_exceptions)
         THEN "EXCEPTION_CHANGE"
    ELSE IF c1.qualifiers # c2.qualifiers THEN "RISK_CHANGE"
    ELSE IF c1.action # c2.action \/ c1.object # c2.object THEN "SCOPE_CHANGE"
    ELSE IF Range(c1.normalized_conditions) # Range(c2.normalized_conditions)
         THEN "CONDITION_CHANGE"
    ELSE IF c1.timebound # c2.timebound THEN "TIMING_CHANGE"
    ELSE "NO_IMPACT_CHANGE"

ExceptionsRemoved(k) ==
    Range(From(k).normalized_exceptions) \ Range(To(k).normalized_exceptions)

\* C4: when compare() has returned, a matched pair reported as
\* EXCEPTION_CHANGE has impact CRITICAL when an exception of document 1 is
\* absent from document 2, and impact HIGH when exceptions were only added.
C4_ExceptionImpact ==
    Returned =>
        \A k \in 1..Len(matched) :
            \A n \in AboutMatched(k) :
                Changes[n].type = "EXCEPTION_CHANGE" =>
                    Changes[n].impact =
                        (IF ExceptionsRemoved(k) # {} THEN "CRITICAL" ELSE "HIGH")

\* C5: when compare() has returned, a matched pair reported as
\* OBLIGATION_CHANGE has impact HIGH when the modality of the document-2
\* CLO is OBLIGATION, and impact MEDIUM otherwise.
C5_ObligationImpact ==
    Returned =>
        \A k \in 1..Len(matched) :
            \A n \in AboutMatched(k) :
                Changes[n].type = "OBLIGATION_CHANGE" =>
                    Changes[n].impact =
                        (IF To(k).modality = "OBLIGATION" THEN "HIGH" ELSE "MEDIUM")

\* match_clos has returned its four lists.
MatchClosReturned == pc = "done" \/ (pc = "similarity" /\ unmatched_clos1 = <<>>)

\* The number of occurrences of x in a list, and the first and the second
\* components of a list of pairs.
Occurs(list, x) == Cardinality({k \in 1..Len(list) : list[k] = x})
Firsts(pairs) == [k \in 1..Len(pairs) |-> pairs[k][1]]
Seconds(pairs) == [k \in 1..Len(pairs) |-> pairs[k][2]]

\* C6: when match_clos has returned, every CLO of (deduplicated) document 1
\* is the first component of exactly one matched pair, or of exactly one
\* structural pair, or is in the removed list, and in one of the three
\* only; every CLO of document 2 is the second component of exactly one
\* matched pair, or of exactly one structural pair, or is in the added
\* list, and in one of the three only.  No NEW_CLAUSE or REMOVED_CLAUSE of
\* the report is about a CLO of a matched or structural pair.
C6_Partition ==
    MatchClosReturned =>
        /\ \A i \in 1..Len(clos1) :
              Occurs(Firsts(matched), i) + Occurs(Firsts(structural_changes), i)
                  + Occurs(removed, i) = 1
        /\ \A j \in 1..Len(clos2) :
              Occurs(Seconds(matched), j) + Occurs(Seconds(structural_changes), j)
                  + Occurs(unmatched_clos2, j) = 1
        /\ Returned =>
              \A n \in 1..Len(Changes) :
                  \A k \in 1..Len(matched \o structural_changes) :
                      LET pair == (matched \o structural_changes)[k]
                      IN  /\ Changes[n].type = "REMOVED_CLAUSE"
                                => Changes[n].from_value # Shown1(pair[1])
                          /\ Changes[n].type = "NEW_CLAUSE"
                                => Changes[n].to_value # Shown2(pair[2])

\* Two CLOs on each side, none with the hash of another: one pair matched
\* by similarity, one CLO removed, one added.
C6_Witness ==
    /\ Returned
    /\ Len(clos1) = 2
    /\ Len(clos2) = 2
    /\ structural_changes = <<>>
    /\ Len(matched) = 1
    /\ ~SameHash(matched[1][1], matched[1][2])
    /\ Len(removed) = 1
    /\ Len(unmatched_clos2) = 1

\* Two CLOs agree on the hashed fields: party, action, object, modality,
\* the sorted normalized conditions, the sorted normalized exceptions, and
\* timebound.
AgreeOnHashedFields(c1, c2) ==
    /\ c1.party = c2.party
    /\ c1.action = c2.action
    /\ c1.object = c2.object
    /\ c1.modality = c2.modality
    /\ Sorted(c1.normalized_conditions) = Sorted(c2.normalized_conditions)
    /\ Sorted(c1.normalized_exceptions) = Sorted(c2.normalized_exceptions)
    /\ c1.timebound = c2.timebound

\* C7: any CLO of document 1 and any CLO of document 2 that agree on the
\* hashed fields have the same intent_hash, whatever their clause_uid,
\* original_text, qualifiers and the order of their conditions and
\* exceptions are; and two CLOs of which one has a normalized condition the
\* other has not have different intent_hash (the digest is taken to be
\* free of collisions).
C7_HashOfFields ==
    \A i \in 1..Len(clos1), j \in 1..Len(clos2) :
        /\ AgreeOnHashedFields(clos1[i], clos2[j]) => SameHash(i, j)
        /\ Range(clos1[i].normalized_conditions) # Range(clos2[j].normalized_conditions)
              => ~SameHash(i, j)

\* Two CLOs that agree on the hashed fields with different clause_uid,
\* text and qualifiers, and conditions and exceptions in another order.
C7_Witness ==
    \E i \in 1..Len(clos1), j \in 1..Len(clos2) :
        /\ AgreeOnHashedFields(clos1[i], clos2[j])
        /\ SameHash(i, j)
        /\ clos1[i].clause_uid # clos2[j].clause_uid
        /\ clos1[i].original_text # clos2[j].original_text
        /\ clos1[i].qualifiers # clos2[j].qualifiers
        /\ clos1[i].normalized_conditions # clos2[j].normalized_conditions
        /\ clos1[i].normalized_exceptions # clos2[j].normalized_exceptions

\* C8: the second of two calls of compare() on the same trees, with a
\* stub that gives the same texts the same similarity, returns the report
\* the first call returned.
C8_Deterministic ==
    (Returned /\ first_report # <<>>) => report = first_report

\* The trees of Scenario 4: the clause in French in document 1, the same
\* clause in English at the same path in document 2.
FrenchAndEnglish ==
    /\ doc1 = OneClause("3", "1", FrenchClause)
    /\ doc2 = OneClause("3", "1", EnglishClause)

\* C9: when compare() has returned on a document 1 with a clause in French
\* and a document 2 with the same clause in English, the report has no
\* change and material_changes is 0.
C9_Translation ==
    (Returned /\ FrenchAndEnglish) =>
        /\ Changes = <<>>
        /\ report[1].summary.material_changes = 0

\* C10: compare() never raises on the trees of the model, among them the
\* empty mapping, a value that is no mapping, list or string, and trees
\* with no surviving clause, and these trees give no CLO.  When compare()
\* has returned: if document 1 has no CLO the report is one NEW_CLAUSE per
\* CLO of document 2 and nothing else; if document 2 has no CLO it is one
\* REMOVED_CLAUSE per CLO of document 1 and nothing else; if neither has
\* one, total_changes is 0.
C10_EmptyTrees ==
    /\ ~raised
    /\ pc # "raised"
    /\ (pc # "start" /\ doc1 \in DegenerateTrees) => clos1 = <<>>
    /\ (pc # "start" /\ doc2 \in DegenerateTrees) => clos2 = <<>>
    /\ Returned =>
          /\ clos1 = <<>> =>
                /\ Len(Changes) = Len(clos2)
                /\ \A n \in 1..Len(Changes) : Changes[n].type = "NEW_CLAUSE"
                /\ \A j \in 1..Len(clos2) :
                      Cardinality({n \in 1..Len(Changes) :
                                      Changes[n].to_value = Shown2(j)}) = 1
          /\ clos2 = <<>> =>
                /\ Len(Changes) = Len(clos1)
                /\ \A n \in 1..Len(Changes) : Changes[n].type = "REMOVED_CLAUSE"
                /\ \A i \in 1..Len(clos1) :
                      Cardinality({n \in 1..Len(Changes) :
                                      Changes[n].from_value = Shown1(i)}) = 1
          /\ (clos1 = <<>> /\ clos2 = <<>>) => report[1].summary.total_changes = 0

\* A document 1 that is a number, and a document 2 with two clauses that
\* survive: two NEW_CLAUSE changes.
C10_Witness ==
    /\ Returned
    /\ doc1 = Other
    /\ Len(clos2) = 2
    /\ report[1].summary.total_changes = 2

\* C11: compare() never raises when the linguistic service or the
\* embedding service raises while a clause is being processed.
C11_ServiceFailures == ~raised /\ pc # "raised"


\* The reports compare() returns for the trees of the running call when
\* no other call runs beside it.
SequentialReports ==
    {<<compare(doc1, doc2, encoded, seed)>> : seed \in HashSeeds}

\* The running call returns a report it returns when run alone.
SameAsSequential == Returned => report \in SequentialReports

\* C12: of two concurrent calls of compare() on independent pairs of
\* documents, neither writes a module-level variable, and each returns
\* the report it returns when the calls run one after the other.
C12_NoSharedState ==
    [][/\ SPACY_MODEL' = SPACY_MODEL
       /\ EMBEDDING_MODEL' = EMBEDDING_MODEL
       /\ SameAsSequential']_vars

\* The sum of the entries of a dictionary of counts, and the entry of a
\* key (0 when the key is absent).
RECURSIVE SumOf(_, _)
SumOf(counts, keys) ==
    IF keys = {} THEN 0
    ELSE LET k == CHOOSE x \in keys : TRUE
         IN  counts[k] + SumOf(counts, keys \ {k})

EntryOf(counts, key) == IF key \in DOMAIN counts THEN counts[key] ELSE 0

\* The number of changes of the returned report whose field has one of
\* the values.
Reported(field, values) ==
    Cardinality({k \in 1..Len(Changes) : Changes[k][field] \in values})

Summary == report[1].summary

\* C13: the summary of a returned report agrees with its change list:
\* total_changes is the length of the list, by_type and by_impact count
\* the changes of each type and impact and each sum to total_changes,
\* material_changes counts the HIGH and CRITICAL changes and
\* requires_human_review the changes flagged for review.
C13_SummaryConsistent ==
    Returned =>
        /\ Summary.total_changes = Len(Changes)
        /\ SumOf(Summary.by_type, DOMAIN Summary.by_type) = Summary.total_changes
        /\ \A t \in DOMAIN Summary.by_type \cup {Changes[k].type : k \in 1..Len(Changes)} :
              EntryOf(Summary.by_type, t) = Reported("type", {t})
        /\ SumOf(Summary.by_impact, DOMAIN Summary.by_impact) = Summary.total_changes
        /\ \A m \in DOMAIN Summary.by_impact \cup {Changes[k].impact : k \in 1..Len(Changes)} :
              EntryOf(Summary.by_impact, m) = Reported("impact", {m})
        /\ Summary.material_changes = Reported("impact", {"HIGH", "CRITICAL"})
        /\ Summary.material_changes =
              EntryOf(Summary.by_impact, "HIGH") + EntryOf(Summary.by_impact, "CRITICAL")
        /\ Summary.requires_human_review = Reported("requires_human_review", {TRUE})

\* A report of changes of several types and impacts, some material and
\* some not.
C13_Witness ==
    /\ Returned
    /\ Cardinality(DOMAIN Summary.by_type) >= 3
    /\ Cardinality(DOMAIN Summary.by_impact) >= 2
    /\ Summary.material_changes >= 2
    /\ Summary.material_changes < Summary.total_changes

\* C14: no returned report has a change of type NO_IMPACT_CHANGE or
\* LANGUAGE_EQUIVALENT or a change of impact NONE; by_type has neither of
\* the two types as a key and by_impact has no NONE entry.
C14_NoNeutralChange ==
    Returned =>
        /\ \A k \in 1..Len(Changes) :
              /\ Changes[k].type \notin {"NO_IMPACT_CHANGE", "LANGUAGE_EQUIVALENT"}
              /\ Changes[k].impact # "NONE"
        /\ DOMAIN Summary.by_type \cap {"NO_IMPACT_CHANGE", "LANGUAGE_EQUIVALENT"} = {}
        /\ "NONE" \notin DOMAIN Summary.by_impact

\* A report returned after the loop over the matched pairs met a language
\* equivalent, with another change in it.
C14_Witness ==
    /\ Returned
    /\ \E k \in 1..Len(matched) :
          detect_language_equivalence(clos1[matched[k][1]], clos2[matched[k][2]])
    /\ Len(Changes) >= 1

\* The origin of a change: 1 for a structural move, 2 for a change of a
\* matched pair, 3 for an added or a removed clause.
Origin(change) ==
    CASE change.type = "STRUCTURAL_CHANGE" -> 1
      [] change.type \in {"NEW_CLAUSE", "REMOVED_CLAUSE"} -> 3
      [] OTHER -> 2

\* C15: the change list of a report is ordered by origin: the structural
\* changes, then the changes of matched pairs, then the added and removed
\* clauses.
C15_OrderedByOrigin ==
    Returned =>
        \A k \in 1..Len(Changes), l \in 1..Len(Changes) :
            k < l => Origin(Changes[k]) <= Origin(Changes[l])

\* A report with a structural change and a change of a matched pair.
C15_Witness ==
    /\ Returned
    /\ \E k \in 1..Len(Changes) : Origin(Changes[k]) = 1
    /\ \E k \in 1..Len(Changes) : Origin(Changes[k]) = 2

\* A report with a structural change, an added and a removed clause.
C15_WitnessAdded ==
    /\ Returned
    /\ \E k \in 1..Len(Changes) : Origin(Changes[k]) = 1
    /\ \E k \in 1..Len(Changes) : Changes[k].type = "NEW_CLAUSE"
    /\ \E k \in 1..Len(Changes) : Changes[k].type = "REMOVED_CLAUSE"

\* The top-level keys of a tree and the value of one of them.
TopKeys(doc) == IF doc.tag = "dict" THEN KeysOf(doc.items) ELSE {}
TopValue(doc, key) == SectionGet(doc.items, key)

\* C16: the chunked comparison of two trees over the size limit covers
\* every top-level key of either tree: a key of one tree only is reported
\* as added or removed, a key of both trees is compared with its
\* counterpart, so that a difference between the two subsections is in the
\* result and the key is not reported as added or removed.
C16_AllSectionsCovered ==
    pc = "chunked" =>
        \A key \in TopKeys(doc1) \cup TopKeys(doc2) :
            LET about == {k \in 1..Len(Changes) : Changes[k].path = key}
            IN  /\ key \notin TopKeys(doc1) =>
                      \E k \in about : Changes[k].type = "NEW_CLAUSE"
                /\ key \notin TopKeys(doc2) =>
                      \E k \in about : Changes[k].type = "REMOVED_CLAUSE"
                /\ key \in TopKeys(doc1) \cap TopKeys(doc2) =>
                      /\ about = {}
                      /\ TopValue(doc1, key) # TopValue(doc2, key) =>
                            \E k \in 1..Len(Changes) :
                                /\ Changes[k].from_value = Some(TopValue(doc1, key))
                                /\ Changes[k].to_value = Some(TopValue(doc2, key))

\* The similarity the stub gives the i-th CLO of document 1 and the j-th
\* CLO of document 2.
Sim(i, j) == StubSimilarity(encoded, clos1[i].original_text, clos2[j].original_text)

\* The CLOs of the two documents that the exact tier left unmatched, and
\* the candidates that remain when the i-th CLO of document 1 is taken:
\* those that no earlier CLO of document 1 was paired with.
Unmatched1 == Range(UnmatchedByHash(clos1, clos2))
Unmatched2 == Range(UnmatchedByHash(clos2, clos1))
Remaining(i) ==
    {j \in Unmatched2 : ~\E k \in 1..Len(matched) : matched[k][2] = j /\ matched[k][1] < i}

\* The pairs the similarity fallback made.
SimilarPairs == {p \in Range(matched) : p[1] \in Unmatched1}

\* C17: the similarity fallback pairs a CLO of document 1 with a remaining
\* candidate only if their similarity is at least 0.88 and no remaining
\* candidate has a higher one; a CLO of document 1 without a remaining
\* candidate of at least 0.88 is reported as REMOVED_CLAUSE, and a CLO of
\* document 2 left unpaired as NEW_CLAUSE.
C17_SimilarityFallback ==
    Returned =>
        /\ \A p \in SimilarPairs :
              /\ p[2] \in Remaining(p[1])
              /\ Sim(p[1], p[2]) >= SimThreshold
              /\ \A j \in Remaining(p[1]) : Sim(p[1], j) <= Sim(p[1], p[2])
        /\ \A i \in Unmatched1 :
              (\A j \in Remaining(i) : Sim(i, j) < SimThreshold)
                  => \E k \in 1..Len(Changes) :
                        /\ Changes[k].type = "REMOVED_CLAUSE"
                        /\ Changes[k].from_value = Shown1(i)
        /\ \A j \in Unmatched2 :
              (\A p \in SimilarPairs : p[2] # j)
                  => \E k \in 1..Len(Changes) :
                        /\ Changes[k].type = "NEW_CLAUSE"
                        /\ Changes[k].to_value = Shown2(j)

\* A report after a fallback that paired one CLO with the better of two
\* candidates, found no candidate for another, and left a candidate over.
C17_Witness ==
    /\ Returned
    /\ \E p \in SimilarPairs :
          \E j \in Remaining(p[1]) : Sim(p[1], j) < Sim(p[1], p[2])
    /\ removed # <<>>
    /\ unmatched_clos2 # <<>>

\* C18: of several remaining candidates with the same, highest similarity
\* the similarity fallback takes the one that comes first in document 2.
C18_FirstMaximum ==
    MatchClosReturned =>
        \A p \in SimilarPairs :
            \A j \in Remaining(p[1]) : Sim(p[1], j) = Sim(p[1], p[2]) => p[2] <= j

\* The orders in which the CLOs of a set can be taken.
Orders(S) ==
    {order \in [1..Cardinality(S) -> S] :
        \A k, l \in 1..Cardinality(S) : k # l => order[k] # order[l]}

\* What the similarity fallback gives when it takes the unmatched CLOs of
\* document 1 in the given order: the pairs, the added and the removed
\* CLOs, as sets.
FallbackIn(order) ==
    LET result == similarity_fallback(clos1, clos2, encoded, order,
                                      UnmatchedByHash(clos2, clos1), <<>>, <<>>)
    IN  [matched |-> Range(result.matched),
         added |-> Range(result.added),
         removed |-> Range(result.removed)]

\* The stub gives no CLO of document 1 the same similarity to two
\* candidates.
NoTies ==
    \A i \in Unmatched1 : \A j, k \in Unmatched2 : j # k => Sim(i, j) # Sim(i, k)

\* C19: with a similarity function without ties the similarity fallback
\* gives the same pairs, the same added and the same removed CLOs in
\* whatever order the unmatched CLOs of document 1 are taken.
C19_OrderIndependent ==
    (MatchClosReturned /\ NoTies) =>
        \A order \in Orders(Unmatched1) :
            FallbackIn(order) =
                [matched |-> SimilarPairs,
                 added |-> Range(unmatched_clos2),
                 removed |-> Range(removed)]

\* In the order of the document the function gives what match_clos gave.
FallbackAsRun ==
    MatchClosReturned =>
        FallbackIn(UnmatchedByHash(clos1, clos2)) =
            [matched |-> SimilarPairs,
             added |-> Range(unmatched_clos2),
             removed |-> Range(removed)]

\* The CLOs of the two documents.
AllClos == Range(clos1) \cup Range(clos2)

\* C20: extract_modality gives a clause with 'shall not' or 'must not'
\* PROHIBITION, a clause with only 'shall', 'must' or 'will' OBLIGATION, a
\* clause with 'may' or 'can' PERMISSION and a clause with 'entitled to'
\* RIGHT.
C20_Modality ==
    \A clo \in AllClos :
        LET modals == clo.original_text.modals
        IN  /\ modals \cap {"shall not", "must not"} # {} => clo.modality = "PROHIBITION"
            /\ (modals # {} /\ modals \subseteq {"shall", "must", "will"})
                  => clo.modality = "OBLIGATION"
            /\ (modals # {} /\ modals \subseteq {"may", "can"})
                  => clo.modality = "PERMISSION"
            /\ modals = {"entitled to"} => clo.modality = "RIGHT"

\* The string leaves of a tree that do not lie under an ignore-key, each
\* with its path: the values of mappings and the elements of lists, at any
\* depth.
RECURSIVE Leaves(_, _)
Leaves(obj, path) ==
    CASE obj.tag = "dict" ->
             UNION {LET item == obj.items[k]
                    IN  IF item.key \in IGNORE_KEYS THEN {}
                        ELSE IF item.value.tag = "str"
                        THEN {[path |-> path \o <<item.key>>, text |-> item.value.text]}
                        ELSE Leaves(item.value, path \o <<item.key>>) :
                    k \in 1..Len(obj.items)}
      [] obj.tag = "list" ->
             UNION {LET item == obj.items[k]
                    IN  IF item.tag = "str"
                        THEN {[path |-> path \o <<IndexPart(k - 1)>>, text |-> item.text]}
                        ELSE Leaves(item, path \o <<IndexPart(k - 1)>>) :
                    k \in 1..Len(obj.items)}
      [] OTHER -> {}

\* The walk of a tree offered the clause filter exactly the leaves of more
\* than 20 characters, each once with its path: the filter's CLO of such a
\* leaf is in the list once (not at all when the filter rejects it), and
\* every CLO of the list is the CLO of such a leaf.
WalkedExactly(doc, clos) ==
    /\ \A leaf \in Leaves(doc, <<>>) :
          leaf.text.len > 20 =>
              Cardinality({k \in 1..Len(clos) : clos[k].clause_uid = leaf.path})
                  = Len(extract_from_clause(leaf.text, leaf.path))
    /\ \A k \in 1..Len(clos) :
          \E leaf \in Leaves(doc, <<>>) :
              /\ leaf.text.len > 20
              /\ <<clos[k]>> = extract_from_clause(leaf.text, leaf.path)

\* C21: the clause walker offers the clause filter exactly the string
\* leaves of more than 20 characters that are not under an ignore-key,
\* values of mappings and elements of lists alike, each once with its path
\* as clause_uid.
C21_WalkerVisitsLeaves ==
    pc = "extracted" => WalkedExactly(doc1, clos1) /\ WalkedExactly(doc2, clos2)

\* The k-th matched pair lists the same normalized conditions in another
\* order.
Reordered(k) ==
    /\ From(k).normalized_conditions # To(k).normalized_conditions
    /\ Sorted(From(k).normalized_conditions) = Sorted(To(k).normalized_conditions)

\* C22: a matched pair whose normalized conditions are the same collection
\* in a different order is not reported as CONDITION_CHANGE, and is
\* reported as TIMING_CHANGE when it differs in nothing but the timebound.
C22_ConditionOrder ==
    Returned =>
        \A k \in 1..Len(matched) :
            Reordered(k) =>
                /\ \A n \in AboutMatched(k) : Changes[n].type # "CONDITION_CHANGE"
                /\ FirstDifference(From(k), To(k)) = "TIMING_CHANGE" =>
                      \E n \in AboutMatched(k) : Changes[n].type = "TIMING_CHANGE"

\* C23: a change of a matched pair is flagged for review exactly when its
\* impact is HIGH or CRITICAL and its confidence at most 0.75, or its
\* impact is CRITICAL and its confidence at most 0.85; no change of impact
\* MEDIUM or LOW is flagged.
C23_ReviewRule ==
    Returned =>
        \A k \in 1..Len(Changes) :
            /\ Changes[k].type \in GateLabels =>
                  (Changes[k].requires_human_review <=>
                      \/ (Changes[k].impact \in {"HIGH", "CRITICAL"}
                          /\ Changes[k].confidence <= 75000)
                      \/ (Changes[k].impact = "CRITICAL"
                          /\ Changes[k].confidence <= 85000))
            /\ Changes[k].impact \in {"MEDIUM", "LOW"} =>
                  ~Changes[k].requires_human_review

\* A report with a change of a matched pair of impact MEDIUM and of a
\* confidence below 0.75.
C23_Witness ==
    /\ Returned
    /\ \E k \in 1..Len(Changes) :
          /\ Changes[k].type \in GateLabels
          /\ Changes[k].impact = "MEDIUM"
          /\ Changes[k].confidence <= 75000

\* A report with a flagged change of a matched pair.
C23_WitnessFlagged ==
    /\ Returned
    /\ \E k \in 1..Len(Changes) :
          Changes[k].type \in GateLabels /\ Changes[k].requires_human_review

\* The factors of the discounts of calculate_confidence, in tenths.
DiscountTenths == {3, 4, 7}

\* C24: every change of every report has a confidence above 0 and at most
\* 1.0, and a discount applied to it gives a value that is not greater and
\* is still above 0.
C24_ConfidenceBounded ==
    Returned =>
        \A k \in 1..Len(Changes) :
            /\ 0 < Changes[k].confidence
            /\ Changes[k].confidence <= ConfOne
            /\ \A tenths \in DiscountTenths :
                  /\ Discount(Changes[k].confidence, TRUE, tenths) <= Changes[k].confidence
                  /\ 0 < Discount(Changes[k].confidence, TRUE, tenths)
                  /\ Discount(Changes[k].confidence, FALSE, tenths) = Changes[k].confidence

\* A report with a change of a matched pair that two discounts applied to
\* (a generic party and a short object: 1.0 * 0.4 * 0.3).
C24_Witness ==
    /\ Returned
    /\ \E k \in 1..Len(Changes) :
          Changes[k].type \in GateLabels /\ Changes[k].confidence = 12000

\* An action, an object that is extraction noise.
NoisyAction(action) == action \in INVALID_ACTIONS
NoisyObject(object) == Upper(object) \in INVALID_OBJECTS \/ StrLen(object) < 3

\* The clause texts of the two documents whose CLO would be noise.
NoisyLeaves ==
    {leaf \in Leaves(doc1, <<>>) \cup Leaves(doc2, <<>>) :
        NoisyAction(normalize_action(leaf.text.lemma)) \/ NoisyObject(leaf.text.object)}

\* The snapshots of CLOs (from_value, to_value) in the returned report.
Snapshots ==
    UNION {Range(Changes[k].from_value) \cup Range(Changes[k].to_value) :
              k \in 1..Len(Changes)}

\* C25: no CLO that reaches match_clos, and no snapshot of a report, has a
\* non-informative action, a placeholder object or an object of fewer than
\* 3 characters; extract_from_clause returns None for a clause whose CLO
\* would have one.
C25_NoNoise ==
    /\ \A clo \in AllClos : ~NoisyAction(clo.action) /\ ~NoisyObject(clo.object)
    /\ \A leaf \in NoisyLeaves : extract_from_clause(leaf.text, leaf.path) = <<>>
    /\ Returned =>
          \A shown \in Snapshots : ~NoisyAction(shown.action) /\ ~NoisyObject(shown.object)

\* A report on a document whose clause is noise and a document whose
\* clause is not.
C25_Witness ==
    /\ Returned
    /\ NoisyLeaves # {}
    /\ Snapshots # {}

\* The CLOs the walk of a document gives, before deduplication.
Extracted(doc) == _extract_clos_from_doc(doc).clos

\* A list of CLOs holds each intent_hash of the walk once, with the first
\* CLO of that hash in the order of the walk, and no other CLO.
FirstOfEachHash(doc, clos) ==
    /\ \A k, l \in 1..Len(clos) : k # l => clos[k].intent_hash # clos[l].intent_hash
    /\ \A n \in 1..Len(Extracted(doc)) :
          \E k \in 1..Len(clos) :
              /\ clos[k].intent_hash = Extracted(doc)[n].intent_hash
              /\ \E m \in 1..n :
                    /\ clos[k] = Extracted(doc)[m]
                    /\ \A x \in 1..(m - 1) :
                          Extracted(doc)[x].intent_hash # clos[k].intent_hash
    /\ \A k \in 1..Len(clos) : clos[k] \in Range(Extracted(doc))

\* The number of changes of the report that come from a clause of
\* document 1, of document 2, with the given intent_hash.
ChangesFrom1(hash_val) ==
    Cardinality({k \in 1..Len(Changes) :
        /\ Changes[k].from_value # <<>>
        /\ \E n \in 1..Len(Extracted(doc1)) :
              /\ Extracted(doc1)[n].intent_hash = hash_val
              /\ Changes[k].from_value = <<_format_clo(Extracted(doc1)[n])>>})
ChangesTo2(hash_val) ==
    Cardinality({k \in 1..Len(Changes) :
        /\ Changes[k].to_value # <<>>
        /\ \E n \in 1..Len(Extracted(doc2)) :
              /\ Extracted(doc2)[n].intent_hash = hash_val
              /\ Changes[k].to_value = <<_format_clo(Extracted(doc2)[n])>>})

\* match_clos has been called.
Matching == pc \in {"get_embedding_model", "load_embedding_model", "similarity", "done"}

\* C26: the lists handed to match_clos hold no two CLOs of one intent_hash:
\* the CLOs of a document with the same intent_hash are collapsed to the
\* first of them in traversal order, and a clause repeated in a document
\* gives at most one change of the report.
C26_Deduplicated ==
    /\ Matching => FirstOfEachHash(doc1, clos1) /\ FirstOfEachHash(doc2, clos2)
    /\ Returned =>
          /\ \A h \in Hashes(Extracted(doc1)) : ChangesFrom1(h) <= 1
          /\ \A h \in Hashes(Extracted(doc2)) : ChangesTo2(h) <= 1

\* A report on a document that repeats a clause.
C26_Witness ==
    /\ Returned
    /\ Len(Extracted(doc1)) > Len(clos1)
    /\ \E h \in Hashes(Extracted(doc1)) : ChangesFrom1(h) = 1

\* C27: comparing a document with itself reports nothing: the change list
\* is empty, total_changes and material_changes are 0; every CLO is
\* hash-matched in its own section and none is added or removed.
C27_SelfComparison ==
    (doc1 = doc2 /\ pc \in {"similarity", "done"}) =>
        /\ structural_changes = <<>>
        /\ unmatched_clos1 = <<>> /\ unmatched_clos2 = <<>> /\ removed = <<>>
        /\ Len(matched) = Len(clos1)
        /\ \A k \in 1..Len(matched) :
              /\ matched[k][1] = matched[k][2]
              /\ is_material_change(clos1[matched[k][1]], clos2[matched[k][2]])
                    = "NO_IMPACT_CHANGE"
        /\ Returned =>
              /\ Changes = <<>>
              /\ Summary.total_changes = 0
              /\ Summary.material_changes = 0

\* A report on a document of two clauses compared with itself.
C27_Witness == Returned /\ doc1 = doc2 /\ Len(clos1) >= 2

\* The embedding stub seen from the other side: cosine similarity is
\* symmetric, so the similarity of (text2, text1) is that of (text1, text2).
SwappedStub(stub) ==
    {[texts |-> <<e.texts[2], e.texts[1]>>, similarity |-> e.similarity] : e \in stub}

\* The paths of the changes of a type in a report.
PathsOf(rep, change_type) ==
    {rep.changes[k].path : k \in {x \in 1..Len(rep.changes) :
                                     rep.changes[x].type = change_type}}

\* The pairs match_clos returns as matched, each as the paths of its two
\* CLOs, document-1 side first.
MatchedPaths(c1, c2, stub) ==
    LET m == match_clos(c1, c2, stub)
    IN  {<<c1[m.matched[k][1]].clause_uid, c2[m.matched[k][2]].clause_uid>> :
            k \in 1..Len(m.matched)}

\* The report of the call with the two documents swapped.
SwappedReport == compare(doc2, doc1, SwappedStub(encoded), 0)

\* C28: swapping the two documents swaps additions and removals: the paths
\* reported REMOVED_CLAUSE by compare(A, B) are those reported NEW_CLAUSE
\* by compare(B, A), and conversely, and the matched pairs are the same up
\* to orientation.
C28_SwapSymmetry ==
    Returned =>
        /\ PathsOf(report[1], "REMOVED_CLAUSE") = PathsOf(SwappedReport, "NEW_CLAUSE")
        /\ PathsOf(report[1], "NEW_CLAUSE") = PathsOf(SwappedReport, "REMOVED_CLAUSE")
        /\ MatchedPaths(clos1, clos2, encoded) =
              {<<p[2], p[1]>> : p \in MatchedPaths(clos2, clos1, SwappedStub(encoded))}

\* The changes of the report about the i-th CLO of document 1, and about
\* the j-th CLO of document 2.
ChangesOf1(i) == {k \in 1..Len(Changes) : Changes[k].from_value = Shown1(i)}
ChangesOf2(j) == {k \in 1..Len(Changes) : Changes[k].to_value = Shown2(j)}

\* C29: no difference is dropped silently: the Semantic Gate never gives
\* NO_IMPACT_CHANGE to a matched pair whose intent hashes differ, and every
\* deduplicated CLO of either document is in a hash-identical pair or in
\* exactly one change of the report.
C29_NoDroppedDifference ==
    /\ pc \in {"similarity", "done"} =>
          \A k \in 1..Len(matched) :
              clos1[matched[k][1]].intent_hash # clos2[matched[k][2]].intent_hash
                  => is_material_change(clos1[matched[k][1]], clos2[matched[k][2]])
                        # "NO_IMPACT_CHANGE"
    /\ Returned =>
          /\ \A i \in 1..Len(clos1) :
                \/ clos1[i].intent_hash \in Hashes(clos2)
                \/ Cardinality(ChangesOf1(i)) = 1
          /\ \A j \in 1..Len(clos2) :
                \/ clos2[j].intent_hash \in Hashes(clos1)
                \/ Cardinality(ChangesOf2(j)) = 1

\* The changes of the report that are additions or removals.
Singletons ==
    {k \in 1..Len(Changes) : Changes[k].type \in {"NEW_CLAUSE", "REMOVED_CLAUSE"}}

\* C30: every NEW_CLAUSE and REMOVED_CLAUSE of a report has impact HIGH,
\* confidence 0.8 and requires_human_review false: no CLO that reaches the
\* matcher takes the 0.3 branch of an addition or removal.
C30_SingletonsNotFlagged ==
    /\ \A clo \in AllClos : SingletonConfidence(clo) = 80000
    /\ Returned =>
          \A k \in Singletons :
              /\ Changes[k].impact = "HIGH"
              /\ Changes[k].confidence = 80000
              /\ Changes[k].requires_human_review = FALSE

\* A report with an added and a removed clause, one of them of the generic
\* party "PARTY".
C30_Witness ==
    /\ Returned
    /\ \E k, l \in Singletons :
          /\ Changes[k].type = "NEW_CLAUSE"
          /\ Changes[l].type = "REMOVED_CLAUSE"
          /\ \/ Changes[k].to_value[1].party = "PARTY"
             \/ Changes[l].from_value[1].party = "PARTY"

====
